---------------------------- MODULE Spec2Model ----------------------------
(***************************************************************************)
(* A model of the KinMS class of kinms/KinMS.py: construction of an        *)
(* instance (kernels, pre-drawn random streams) and the model_cube call    *)
(* (cloud sampling, velocities, projection, binning, convolution,          *)
(* normalisation).                                                         *)
(*                                                                         *)
(* Number representation.  The program computes in floating point; the     *)
(* model computes exactly, on integers and on fractions of integers:       *)
(*   - sky positions are whole arcseconds, velocities whole km/s;          *)
(*   - a length in pixels is held as (length * cellSize), a whole number,  *)
(*     and is only turned into a pixel index by np.round (RoundHalfEven);  *)
(*   - angles are whole degrees, and Cos/Sin are exact on multiples of 90; *)
(*   - a Gaussian kernel value exp(-q) is held by its exponent in units of *)
(*     ln 2, so that it is the dyadic fraction 2^(-e);                     *)
(*   - a cube is an array v of whole numbers with one common factor        *)
(*     num/den: voxel (x,y,c) holds v[x][y][c]*num/den.  den = 0 stands    *)
(*     for the non-finite cube (inf/nan voxels) a division by zero leaves. *)
(*   - numpy.random.RandomState(seed) is a fixed function of its seed: a   *)
(*     small linear congruential generator stands for it.                  *)
(* Arrays are sequences (index 1 is numpy's index 0).                      *)
(***************************************************************************)
EXTENDS Integers, Sequences, FiniteSets, TLC

(***************************************************************************)
(* Arithmetic helpers (numpy primitives).                                  *)
(***************************************************************************)
Abs(n) == IF n < 0 THEN -n ELSE n

Min2(a, b) == IF a < b THEN a ELSE b

Max2(a, b) == IF a > b THEN a ELSE b

\* np.round of the fraction n/d (d > 0): to nearest, ties to the even integer.
RoundHalfEven(n, d) ==
  LET q == n \div d
      r == n % d
  IN  IF 2 * r < d THEN q
      ELSE IF 2 * r > d THEN q + 1
      ELSE IF q % 2 = 0 THEN q ELSE q + 1

\* np.sqrt on the model's whole numbers: the integer part of the root.
RECURSIVE ISqrtFrom(_, _)
ISqrtFrom(n, k) == IF (k + 1) * (k + 1) > n THEN k ELSE ISqrtFrom(n, k + 1)

ISqrt(n) == IF n <= 0 THEN 0 ELSE ISqrtFrom(n, 0)

RECURSIVE Pow2(_)
Pow2(e) == IF e <= 0 THEN 1 ELSE 2 * Pow2(e - 1)

\* Sum of a sequence of integers (ndarray.sum of a 1-D array).
RECURSIVE SumOf(_)
SumOf(s) == IF s = <<>> THEN 0 ELSE Head(s) + SumOf(Tail(s))

SeqSum(s) == SumOf(s \o <<>>)

\* np.cos / np.sin of np.radians(deg), exact for deg a multiple of 90.
Cos(deg) ==
  LET d == deg % 360
  IN  IF d = 0 THEN 1 ELSE IF d = 180 THEN -1 ELSE 0

Sin(deg) ==
  LET d == deg % 360
  IN  IF d = 90 THEN 1 ELSE IF d = 270 THEN -1 ELSE 0


RECURSIVE GCD(_, _)
GCD(a, b) == IF b = 0 THEN Abs(a) ELSE GCD(b, a % b)

\* A fraction n/d in lowest terms with d >= 0 (d = 0: not finite).
Frac(n, d) ==
  IF d = 0 THEN <<IF n > 0 THEN 1 ELSE IF n < 0 THEN -1 ELSE 0, 0>>
  ELSE LET g == GCD(Abs(n), Abs(d))
           s == IF d < 0 THEN -1 ELSE 1
       IN  <<(s * n) \div g, (s * d) \div g>>

\* np.interp(x, xp, fp) for one x, on whole numbers: clamped at both ends,
\* linear in between, the result cut to a whole number.
Interp(x, xp, fp) ==
  LET n == Len(xp)
  IN  IF x <= xp[1] THEN fp[1]
      ELSE IF x >= xp[n] THEN fp[n]
      ELSE LET i == CHOOSE j \in 1..(n - 1) :
                      /\ xp[j] <= x
                      /\ \A k \in (j + 1)..(n - 1) : xp[k] > x
           IN  IF xp[i + 1] = xp[i] THEN fp[i]
               ELSE fp[i] + (((x - xp[i]) * (fp[i + 1] - fp[i])) \div (xp[i + 1] - xp[i]))

\* numpy broadcasting of two 1-D shapes: the common length, or 0 when the
\* operands could not be broadcast together (numpy raises ValueError).
BroadcastLen(a, b) == IF a = b THEN a ELSE IF a = 1 THEN b ELSE IF b = 1 THEN a ELSE 0

\* An ndarray holds its values: the array of the values of f, computed once.
Array(f) == f @@ <<>>

\* Element k of a 1-D array under broadcasting.
At(arr, k) == IF Len(arr) = 1 THEN arr[1] ELSE arr[k]

(***************************************************************************)
(* numpy.random.RandomState: a deterministic generator keyed by its seed.  *)
(* RandRaw(seed, k) is its k-th raw draw; the first k draws do not depend  *)
(* on how many are asked for.                                              *)
(***************************************************************************)
RECURSIVE RandRaw(_, _)
RandRaw(seed, k) == IF k = 0 THEN seed % 32 ELSE (5 * RandRaw(seed, k - 1) + 3) % 32

\* random_sample(n): n floats of [0,1), held as quarters 1/4 .. 3/4.
random_sample(seed, n) == [k \in 1..n |-> 1 + ((RandRaw(seed, k) \div 4) % 3)]

\* random_sample(n) * 2 * pi: n azimuths, held in degrees (quarter turns).
random_azimuth(seed, n) == [k \in 1..n |-> 90 * ((RandRaw(seed, k) \div 8) % 4)]

\* randn(n): n standard-normal deviates, held as -1, 0 or 1.
randn(seed, n) == [k \in 1..n |-> ((RandRaw(seed, k) \div 4) % 3) - 1]

\* rng3.exponential(1, n): the first n draws of the generator.
exponential(seed, n) == [k \in 1..n |-> (RandRaw(seed, k) \div 4) % 3]

\* rng3.choice([-1, 1], size=n) AFTER exponential(1, n) on the same generator:
\* draws n+1 .. 2n.
choice_sign(seed, n) ==
  [k \in 1..n |-> IF (RandRaw(seed, n + k) \div 16) % 2 = 0 THEN -1 ELSE 1]

(***************************************************************************)
(* Kernels.  A kernel value exp(-q) with q = e * ln 2 is the fraction       *)
(* 2^(-e); a value below 1e-5 (e >= 17) is set to zero.  A kernel is held   *)
(* as whole-number weights w over a common scale: value = w / scale.        *)
(***************************************************************************)
\* The exponent (in units of ln 2) of a Gaussian of the given FWHM, one pixel
\* off centre: exp(-1/(2 st_dev^2)) with st_dev = fwhm / cell / 2.355.
GaussExp(fwhm, cell) == (4 * cell * cell) \div (fwhm * fwhm)

\* psf[psf < 1e-5] = 0: the weight of exponent e on the scale 2^top.
KernelWeight(e, top) == IF e >= 17 THEN 0 ELSE Pow2(top - e)

\* The beam as makebeam normalises it: [major, minor, position angle].
BeamNormalise(beamSize) ==
  IF Len(beamSize) = 1 THEN <<beamSize[1], beamSize[1], 0>>
  ELSE LET b3 == IF Len(beamSize) = 2 THEN Append(beamSize, 0) ELSE beamSize
           sw == IF b3[2] > b3[1] THEN <<b3[2], b3[1], b3[3]>> ELSE b3
       IN  IF sw[3] >= 180 THEN <<sw[1], sw[2], sw[3] - 180>> ELSE sw

\* A crop size one more than the extent, whatever its parity.
CropSize_unpadded(span, limit) ==
  IF span + 1 > limit THEN (IF limit % 2 = 0 THEN limit - 1 ELSE limit) ELSE span + 1

\* The odd crop size of makebeam and makelsf from the non-zero extent
\* `span` (idx[-1] - idx[0]) and the largest size allowed.
CropSize(span, limit) ==
  LET newsize == IF span % 2 = 0 THEN span + 1 ELSE span + 2
  IN  IF newsize > limit
      THEN (IF limit % 2 = 0 THEN limit - 1 ELSE limit)
      ELSE newsize

\* The smallest and the largest element of a non-empty set of integers.
SetMin(S) == CHOOSE i \in S : \A j \in S : i <= j

SetMax(S) == CHOOSE i \in S : \A j \in S : i >= j

\* The exponent of the beam at pixel (x, y): a x^2 - 2 b x y + c y^2 about
\* cent, where b = 0 (sin(2 rot) = 0 for rot a multiple of 90).
BeamExp(cent, a, c, x, y) ==
  (a * (x - cent[1]) * (x - cent[1])) + (c * (y - cent[2]) * (y - cent[2]))

\* The steps of makebeam, last first.
\* Line 311: Cutout2D(psf, (cent[1], cent[0]), newsize), trimmed to the array;
\* the window is x0..x1 by y0..y1.
makebeam_cutout(cent, a, c, x0, x1, y0, y1) ==
  LET top == SetMax({BeamExp(cent, a, c, x, y) : x \in x0..x1, y \in y0..y1} \cap 0..16)
  IN  [nx |-> (x1 - x0) + 1, ny |-> (y1 - y0) + 1, scale |-> Pow2(top),
       w  |-> [q \in (0..(x1 - x0)) \X (0..(y1 - y0)) |->
                 KernelWeight(BeamExp(cent, a, c, x0 + q[1], y0 + q[2]), top)]]

\* Lines 295-308: newsize from idx, the indices where flat > 0; half is
\* (newsize - 1) / 2.
makebeam_window(xpixels, ypixels, cent, a, c, half) ==
  makebeam_cutout(cent, a, c,
                  Max2(0, cent[1] - half), Min2(xpixels - 1, cent[1] + half),
                  Max2(0, cent[2] - half), Min2(ypixels - 1, cent[2] + half))

makebeam_trim(xpixels, ypixels, cent, a, c, idx) ==
  makebeam_window(xpixels, ypixels, cent, a, c,
                  (CropSize(SetMax(idx) - SetMin(idx), Min2(xpixels, ypixels)) - 1) \div 2)

\* Lines 283-293: psf[psf < 1e-5] = 0, and flat = np.sum(psf, axis=1)
\* (indexed by x) or axis=0 (indexed by y).
makebeam_flat(xpixels, ypixels, cent, bs, a, c) ==
  makebeam_trim(xpixels, ypixels, cent, a, c,
                IF 45 < bs[3] /\ bs[3] < 135
                THEN {x \in 0..(xpixels - 1) :
                        \E y \in 0..(ypixels - 1) : BeamExp(cent, a, c, x, y) < 17}
                ELSE {y \in 0..(ypixels - 1) :
                        \E x \in 0..(xpixels - 1) : BeamExp(cent, a, c, x, y) < 17})

\* Lines 260-281: st_dev, rot and the quadratic form; bs is the normalised beam.
makebeam_psf(xpixels, ypixels, cent, bs, cellSize) ==
  makebeam_flat(xpixels, ypixels, cent, bs,
                (Cos(bs[3]) * Cos(bs[3]) * GaussExp(bs[2], cellSize))
                + (Sin(bs[3]) * Sin(bs[3]) * GaussExp(bs[1], cellSize)),
                (Sin(bs[3]) * Sin(bs[3]) * GaussExp(bs[2], cellSize))
                + (Cos(bs[3]) * Cos(bs[3]) * GaussExp(bs[1], cellSize)))

makebeam(xpixels, ypixels, beamSize, cellSize) ==
  makebeam_psf(xpixels, ypixels, <<xpixels \div 2, ypixels \div 2>>,
               BeamNormalise(beamSize), cellSize)

\* The steps of makelsf, last first.
\* Lines 340-358: lsf /= np.sum(lsf) before the trim (the scale is the
\* untrimmed sum); newsize from idx; the slice returned.
makelsf_trim(vpixels, lsfcent, full, half) ==
  [n |-> (Min2(vpixels - 1, lsfcent + half) - (lsfcent - half)) + 1,
   scale |-> SeqSum([x \in 1..vpixels |-> full[x - 1]]),
   w |-> [q \in 0..(Min2(vpixels - 1, lsfcent + half) - (lsfcent - half)) |->
            full[(lsfcent - half) + q]]]

makelsf_lsf(vpixels, lsfcent, e1, idx, top) ==
  makelsf_trim(vpixels, lsfcent,
               [x \in 0..(vpixels - 1) |->
                  KernelWeight(e1 * (x - lsfcent) * (x - lsfcent), top)],
               CropSize(SetMax(idx) - SetMin(idx), vpixels) \div 2)

makelsf_exp(vpixels, lsfcent, e1) ==
  makelsf_lsf(vpixels, lsfcent, e1,
              {x \in 0..(vpixels - 1) : e1 * (x - lsfcent) * (x - lsfcent) < 17},
              SetMax({e1 * (x - lsfcent) * (x - lsfcent) : x \in 0..(vpixels - 1)} \cap 0..16))

makelsf(vpixels, lsf_width, dv) == makelsf_exp(vpixels, vpixels \div 2, GaussExp(lsf_width, dv))

(***************************************************************************)
(* Construction.  The argument record p holds the constructor's arguments  *)
(* (lsf_fwhm = 0 stands for None, seed = 0 for None; nSamps is always      *)
(* given); rnd is the value np.random.randint(1, 100) returns.             *)
(***************************************************************************)
\* A constructor that always seeds from np.random.randint, whatever fixSeed is.
SeedOf_random(fixSeed, seed, rnd) == <<rnd, 3 * rnd, 5 * rnd, 9 * rnd>>

\* self.seed
SeedOf(fixSeed, seed, rnd) ==
  IF ~fixSeed THEN <<rnd, 3 * rnd, 5 * rnd, 9 * rnd>>
  ELSE IF seed # 0 THEN <<100 * seed, 101 * seed, 102 * seed, 103 * seed>>
  ELSE <<100, 101, 102, 103>>

\* The kernel record that stands for "no kernel" (self.psf = 1, self.lsf = None).
NoKernel2D == [nx |-> 0, ny |-> 0, scale |-> 1, w |-> <<>>]

NoKernel1D == [n |-> 0, scale |-> 1, w |-> <<>>]

KinMS_init(p, rnd) ==
  LET seed   == SeedOf(p.fixSeed, p.seed, rnd)
      x_size == RoundHalfEven(p.xs, p.cellSize)
      y_size == RoundHalfEven(p.ys, p.cellSize)
      v_size == RoundHalfEven(p.vs, p.dv)
  IN  [xs |-> p.xs, ys |-> p.ys, vs |-> p.vs, cellSize |-> p.cellSize, dv |-> p.dv,
       beamSize |-> p.beamSize, lsf_fwhm |-> p.lsf_fwhm, fixSeed |-> p.fixSeed,
       seed |-> seed, cleanOut |-> p.cleanOut, huge_beam |-> p.huge_beam,
       nSamps |-> p.nSamps,
       x_size |-> x_size, y_size |-> y_size, v_size |-> v_size,
       psf |-> IF ~p.cleanOut THEN makebeam(x_size, y_size, p.beamSize, p.cellSize)
               ELSE NoKernel2D,
       lsf |-> IF p.lsf_fwhm # 0 THEN makelsf(v_size, p.lsf_fwhm, p.dv) ELSE NoKernel1D,
       randompick_r     |-> random_sample(seed[1], p.nSamps),
       randompick_phi   |-> random_azimuth(seed[2], p.nSamps),
       randompick_vdisp |-> randn(seed[4], p.nSamps),
       inClouds_given   |-> FALSE]

(***************************************************************************)
(* Cloud sampling.  An operator that can raise returns a record whose err  *)
(* field names the exception ("none": it returned).                        *)
(***************************************************************************)
\* scipy.integrate.cumtrapz(sbProf * 2 * pi * |sbRad|, |sbRad|, initial=0),
\* without its constant factor pi (px is divided by max(px) right after).
RECURSIVE cumtrapz(_, _, _)
cumtrapz(sbProf, sbRad, i) ==
  IF i <= 1 THEN 0
  ELSE cumtrapz(sbProf, sbRad, i - 1)
       + (((sbProf[i] * Abs(sbRad[i])) + (sbProf[i - 1] * Abs(sbRad[i - 1])))
          * (Abs(sbRad[i]) - Abs(sbRad[i - 1])))

\* Is the array a usable as the right-hand side of column[:] = a, the column
\* having n rows?
Assignable(a, n) == Len(a) = n \/ Len(a) = 1

\* A thickness test that takes every disc for a thick one.
ThickDisc_always(diskThick) == TRUE

\* np.any(diskThick != 0)
ThickDisc(diskThick) == \E i \in 1..Len(diskThick) : diskThick[i] # 0

\* The sampler.  A draw of exactly 0.0 (r_3d = 0, a 0/0) is not modelled:
\* random_sample never yields 0 here.
kinms_sampleFromArbDist_oneSided(self, sbRad, sbProf, nSamps, diskThick) ==
  LET n0     == Len(self.randompick_r)
      px     == [i \in 1..Len(sbRad) |-> cumtrapz(sbProf, sbRad, i)]
      pmax   == CHOOSE m \in {px[i] : i \in 1..Len(px)} : \A i \in 1..Len(px) : m >= px[i]
      \* randompick_r[k] = u/4 against px/pmax: compare u*pmax with 4*px
      r_flat == [k \in 1..n0 |->
                   Interp(self.randompick_r[k] * pmax, [i \in 1..Len(px) |-> 4 * px[i]], sbRad)]
      phi    == self.randompick_phi
      thick  == ThickDisc(diskThick)
      badLen == thick /\ Len(diskThick) > 1 /\ Len(diskThick) # Len(sbRad)
      here   == IF Len(diskThick) > 1
                THEN [k \in 1..n0 |-> Interp(r_flat[k], sbRad, diskThick)]
                ELSE diskThick
      \* rng3 = np.random.RandomState(self.seed[2])
      ex     == exponential(self.seed[3], nSamps)
      sg     == choice_sign(self.seed[3], nSamps)
      zLen   == IF thick THEN BroadcastLen(Len(here), nSamps) ELSE 1
      z_pos  == IF thick
                THEN [k \in 1..zLen |-> At(here, k) * At(ex, k) * At(sg, k)]
                ELSE <<0>>
      \* r_3d, sintheta, x_pos, y_pos: r_flat, z_pos and phi broadcast together
      xyLen  == BroadcastLen(n0, zLen)
      x_pos  == [k \in 1..xyLen |-> At(r_flat, k) * Cos(At(phi, k))]
      y_pos  == [k \in 1..xyLen |-> At(r_flat, k) * Sin(At(phi, k))]
      \* the numbers line 410 draws from rng3: nSamps of each kind
      drawn  == IF thick THEN Len(ex) + Len(sg) ELSE 0
  IN  IF badLen THEN [err |-> "KinMSError", inClouds |-> <<>>, drawn |-> 0]
      ELSE IF zLen = 0 \/ xyLen = 0 THEN [err |-> "ValueError", inClouds |-> <<>>, drawn |-> drawn]
      ELSE IF ~(Assignable(x_pos, nSamps) /\ Assignable(z_pos, nSamps))
           THEN [err |-> "ValueError", inClouds |-> <<>>, drawn |-> drawn]
      ELSE [err |-> "none", drawn |-> drawn,
            inClouds |-> [k \in 1..nSamps |-> <<At(x_pos, k), At(y_pos, k), At(z_pos, k)>>]]

\* generate_cloudlets: the result, and self.inClouds_given as it leaves it.
generate_cloudlets(self, cfg) ==
  IF Len(cfg.sbRad) = 0 \/ Len(cfg.sbProf) = 0
  THEN [err |-> "KinMSError", inClouds |-> <<>>, drawn |-> 0]
  ELSE IF Len(cfg.sbRad) # Len(cfg.sbProf)
  THEN [err |-> "KinMSError", inClouds |-> <<>>, drawn |-> 0]
  ELSE kinms_sampleFromArbDist_oneSided(self, cfg.sbRad, cfg.sbProf, self.nSamps, cfg.diskThick)

(***************************************************************************)
(* Positions, warps, velocities, projection.                               *)
(***************************************************************************)
\* set_cloud_positions: x_pos, y_pos, z_pos (pixels, held times cellSize) and
\* r_flat.
set_cloud_positions(inClouds) ==
  [x_pos  |-> [k \in 1..Len(inClouds) |-> inClouds[k][1]],
   y_pos  |-> [k \in 1..Len(inClouds) |-> inClouds[k][2]],
   z_pos  |-> [k \in 1..Len(inClouds) |-> inClouds[k][3]],
   r_flat |-> [k \in 1..Len(inClouds) |->
                 ISqrt((inClouds[k][1] * inClouds[k][1]) + (inClouds[k][2] * inClouds[k][2]))]]

\* np.interp over an array of points; it raises ValueError when xp is empty
\* or xp and fp differ in length.
InterpAll(xs, xp, fp) ==
  IF Len(xp) = 0 \/ Len(xp) # Len(fp)
  THEN [err |-> "ValueError", val |-> <<>>]
  ELSE [err |-> "none", val |-> [k \in 1..Len(xs) |-> Interp(xs[k], xp, fp)]]

\* create_warp(array, r_flat), velRad being self.velRad at that point.
create_warp(array, r_flat, sbRad, velRad) ==
  IF Len(array) > 1
  THEN IF Len(sbRad) # Len(velRad)
       THEN [err |-> "KinMSError", val |-> <<>>]
       ELSE InterpAll(r_flat, velRad, array)
  ELSE [err |-> "none", val |-> [k \in 1..Len(r_flat) |-> array[1]]]

\* sorted(rad)
RECURSIVE Insert(_, _)
Insert(x, s) ==
  IF s = <<>> THEN <<x>>
  ELSE IF x <= Head(s) THEN <<x>> \o s
  ELSE <<Head(s)>> \o Insert(x, Tail(s))

RECURSIVE Sorted(_)
Sorted(s) == IF s = <<>> THEN <<>> ELSE Insert(Head(s), Sorted(Tail(s)))

\* grav_const = 4.301e-3, in millionths
grav_const == 4301

\* arcsec_to_pc = 4.84, in hundredths
arcsec_to_pc == 484

\* gasGravity_velocity: add_to_circ_vel_sqr at each radius of velRad, cut to
\* a whole number; a non-finite value (velRad = 0) is replaced by 0.
gasGravity_velocity(x_pos, y_pos, z_pos, massDist, velRad) ==
  IF Len(massDist) # 2 THEN [err |-> "KinMSError", val |-> <<>>]
  ELSE
    LET n       == Len(x_pos)
        rad     == [k \in 1..n |->
                      ISqrt((x_pos[k] * x_pos[k]) + (y_pos[k] * y_pos[k]) + (z_pos[k] * z_pos[k]))]
        \* cumMass * n, so that it stays whole
        cumMass == [i \in 1..(n + 1) |-> (i - 1) * massDist[1]]
        new_rad == <<0>> \o Sorted(rad)
    IN  [err |-> "none",
         val |-> [j \in 1..Len(velRad) |->
                    IF velRad[j] = 0 \/ massDist[2] = 0 THEN 0
                    ELSE (grav_const * Interp(velRad[j], new_rad, cumMass))
                         \div (10000 * arcsec_to_pc * n * velRad[j] * massDist[2])]]

\* vRad * cos(theta) for one cloud, theta = arctan2(dy, dx) + radians(delta):
\* cos(theta) = (dx cos(delta) - dy sin(delta)) / hypot(dx, dy), and
\* arctan2(0, 0) = 0.  Exact for clouds on the axes; rounded otherwise.
RotCosTheta(vRad, dx, dy, delta) ==
  IF dx = 0 /\ dy = 0 THEN vRad * Cos(delta)
  ELSE RoundHalfEven(vRad * ((dx * Cos(delta)) - (dy * Sin(delta))),
                     ISqrt((dx * dx) + (dy * dy)))

\* The slice of the dispersion stream kinms_create_velField_oneSided takes.
VelDispSlice(self) ==
  IF self.inClouds_given
  THEN SubSeq(self.randompick_vdisp, 1, Min2(self.nSamps, Len(self.randompick_vdisp)))
  ELSE self.randompick_vdisp

\* kinms_create_velField_oneSided.  s carries the call's fields of self
\* (velRad, velProf, gasSigma, vPosAng, vPhaseCent, x_pos, y_pos, r_flat).
\* radial_motion_func is None.
kinms_create_velField_oneSided(self, s, posAng_rad, inc_rad) ==
  LET n       == Len(s.x_pos)
      moved   == s.vPhaseCent # <<0, 0>>
      dx(k)   == s.x_pos[k] - s.vPhaseCent[1]
      dy(k)   == s.y_pos[k] - s.vPhaseCent[2]
      r_flatv == IF moved
                 THEN [k \in 1..n |-> ISqrt((dx(k) * dx(k)) + (dy(k) * dy(k)))]
                 ELSE s.r_flat
      vRad    == InterpAll(r_flatv, s.velRad, s.velProf)
      velDisp == VelDispSlice(self)
      sigma   == IF Len(s.gasSigma) > 1
                 THEN InterpAll(r_flatv, s.velRad, s.gasSigma)
                 ELSE [err |-> "none", val |-> s.gasSigma]
      \* velDisp *= sigma: in place, so sigma must broadcast to velDisp's shape
      sigOk   == Len(sigma.val) = Len(velDisp) \/ Len(sigma.val) = 1
      vPA     == IF Len(s.vPosAng) = 0 THEN [err |-> "none", val |-> posAng_rad]
                 ELSE IF Len(s.vPosAng) = 1 THEN [err |-> "none", val |-> s.vPosAng]
                 ELSE InterpAll(r_flatv, s.velRad, s.vPosAng)
      losLen  == BroadcastLen(Len(velDisp), n)
  IN  IF vRad.err # "none" THEN [err |-> vRad.err, val |-> <<>>]
      ELSE IF sigma.err # "none" THEN [err |-> sigma.err, val |-> <<>>]
      ELSE IF ~sigOk THEN [err |-> "ValueError", val |-> <<>>]
      ELSE IF vPA.err # "none" THEN [err |-> vPA.err, val |-> <<>>]
      ELSE IF losLen = 0 THEN [err |-> "ValueError", val |-> <<>>]
      ELSE [err |-> "none",
            val |-> [k \in 1..losLen |->
                       (At(velDisp, k) * At(sigma.val, k))
                       - (RotCosTheta(At(vRad.val, k), dx(IF n = 1 THEN 1 ELSE k),
                                      dy(IF n = 1 THEN 1 ELSE k),
                                      At(posAng_rad, k) - At(vPA.val, k))
                          * Sin(At(inc_rad, k)))]]

\* inclination_projection for one cloud: <<x2, y2, z2>>
inclination_projection(ang, x1, y1, z1) ==
  <<x1, (Cos(ang) * y1) + (Sin(ang) * z1), ((-Sin(ang)) * y1) + (Cos(ang) * z1)>>

\* position_angle_rotation for one cloud: <<x3, y3, z3>>
position_angle_rotation(ang, x2, y2, z2) ==
  <<(Cos(90 - ang) * x2) + (Sin(90 - ang) * y2),
    ((-Sin(90 - ang)) * x2) + (Cos(90 - ang) * y2), z2>>

\* The record an operator of set_cloud_velocities' shape raises with.
VelRaise(e) == [err |-> e, x |-> <<>>, y |-> <<>>, z |-> <<>>, los_vel |-> <<>>,
                velProf |-> <<>>, projected |-> FALSE, velRad |-> <<>>,
                inc_rad |-> <<>>, posAng_rad |-> <<>>]

\* A set_cloud_velocities that leaves the gas mass out of the rotation curve.
GasGravityWanted_never(massDist) == FALSE

\* Does set_cloud_velocities call gasGravity_velocity?
GasGravityWanted(massDist) == Len(massDist) > 1

\* set_cloud_velocities.  pos is set_cloud_positions' result; the result holds
\* x3, y3, z3, los_vel (and, for inspection, self.velProf and self.velRad as
\* the call leaves them, the two warps create_warp returned, and whether the
\* positions went through the two projections).
set_cloud_velocities(self, cfg, pos) ==
  IF Len(cfg.vLOS_clouds) # 0
  THEN [err |-> "none", x |-> pos.x_pos, y |-> pos.y_pos, z |-> pos.z_pos,
        los_vel |-> cfg.vLOS_clouds, velProf |-> cfg.velProf, projected |-> FALSE,
        velRad |-> cfg.velRad, inc_rad |-> <<>>, posAng_rad |-> <<>>]
  ELSE IF Len(cfg.velProf) = 0 THEN VelRaise("KinMSError")
  ELSE
    LET velRad  == IF Len(cfg.velRad) = 0 /\ Len(cfg.sbRad) # 0 THEN cfg.sbRad ELSE cfg.velRad
        grav    == IF GasGravityWanted(cfg.massDist)
                   THEN gasGravity_velocity(pos.x_pos, pos.y_pos, pos.z_pos, cfg.massDist, velRad)
                   ELSE [err |-> "none", val |-> <<>>]
        \* self.velProf = np.sqrt(self.velProf ** 2 + gasGravVel_sqr)
        gLen    == BroadcastLen(Len(cfg.velProf), Len(grav.val))
        velProf == IF GasGravityWanted(cfg.massDist)
                   THEN [j \in 1..gLen |->
                           ISqrt((At(cfg.velProf, j) * At(cfg.velProf, j)) + At(grav.val, j))]
                   ELSE cfg.velProf
        paBad   == Len(cfg.posAng) > 1 /\ Len(cfg.posAng) # Len(velRad)
        posAng_rad == create_warp(cfg.posAng, pos.r_flat, cfg.sbRad, velRad)
        inc_rad    == create_warp(cfg.inc, pos.r_flat, cfg.sbRad, velRad)
        s       == [velRad |-> velRad, velProf |-> velProf, gasSigma |-> cfg.gasSigma,
                    vPosAng |-> cfg.vPosAng, vPhaseCent |-> cfg.vPhaseCent,
                    x_pos |-> pos.x_pos, y_pos |-> pos.y_pos, r_flat |-> pos.r_flat]
        los     == kinms_create_velField_oneSided(self, s, posAng_rad.val, inc_rad.val)
        n       == Len(pos.x_pos)
        p2(k)   == inclination_projection(inc_rad.val[k], pos.x_pos[k], pos.y_pos[k], pos.z_pos[k])
        p3(k)   == position_angle_rotation(posAng_rad.val[k], p2(k)[1], p2(k)[2], p2(k)[3])
    IN  IF grav.err # "none" THEN VelRaise(grav.err)
        ELSE IF GasGravityWanted(cfg.massDist) /\ gLen = 0 THEN VelRaise("ValueError")
        ELSE IF paBad THEN VelRaise("KinMSError")
        ELSE IF posAng_rad.err # "none" THEN VelRaise(posAng_rad.err)
        ELSE IF inc_rad.err # "none" THEN VelRaise(inc_rad.err)
        ELSE IF los.err # "none" THEN VelRaise(los.err)
        ELSE [err |-> "none",
              x |-> [k \in 1..n |-> p3(k)[1]], y |-> [k \in 1..n |-> p3(k)[2]],
              z |-> [k \in 1..n |-> p3(k)[3]],
              los_vel |-> los.val, velProf |-> velProf, projected |-> TRUE,
              velRad |-> velRad, inc_rad |-> inc_rad.val, posAng_rad |-> posAng_rad.val]

(***************************************************************************)
(* Binning.  A grid is a function on the voxel indices                     *)
(* (0..x_size-1) x (0..y_size-1) x (0..v_size-1).                          *)
(***************************************************************************)
Voxels(self) == (0..(self.x_size - 1)) \X (0..(self.y_size - 1)) \X (0..(self.v_size - 1))

\* cent of model_cube, each entry as a fraction <<numerator, denominator>>:
\* x_size/2 + phaseCent[0]/cellSize, ..., v_size/2 + vOffset/dv.
Cent(self, cfg) ==
  <<<<(self.x_size * self.cellSize) + (2 * cfg.phaseCent[1]), 2 * self.cellSize>>,
    <<(self.y_size * self.cellSize) + (2 * cfg.phaseCent[2]), 2 * self.cellSize>>,
    <<(self.v_size * self.dv) + (2 * cfg.vOffset), 2 * self.dv>>>>

\* np.round(x2 + cent[0]) for a position held times cellSize (and
\* np.round(los_vel / dv + cent[2]) with dv for cellSize).
RoundCentred(val, c) == RoundHalfEven((2 * val) + c[1], c[2])

\* An in-cube test that looks at the two sky axes only.
InCube_sky(self, ix, iy, iv) ==
  /\ ix >= 0 /\ ix < self.x_size
  /\ iy >= 0 /\ iy < self.y_size

\* The in-cube test of find_clouds_in_cube on one cloud's rounded indices.
InCube(self, ix, iy, iv) ==
  /\ ix >= 0 /\ ix < self.x_size
  /\ iy >= 0 /\ iy < self.y_size
  /\ iv >= 0 /\ iv < self.v_size

\* find_clouds_in_cube: subs (the mask) and clouds2do (the rows kept).
find_clouds_in_cube(self, los_vel, cent, x2, y2) ==
  LET n   == BroadcastLen(Len(los_vel), Len(x2))
      iv(k) == RoundCentred(At(los_vel, k), cent[3])
      ix(k) == RoundCentred(At(x2, k), cent[1])
      iy(k) == RoundCentred(At(y2, k), cent[2])
      subs == [k \in 1..n |-> InCube(self, ix(k), iy(k), iv(k))]
      RECURSIVE Rows(_)
      Rows(k) == IF k = 0 THEN <<>>
                 ELSE IF subs[k] THEN Append(Rows(k - 1), <<ix(k), iy(k), iv(k)>>)
                 ELSE Rows(k - 1)
  IN  IF n = 0 THEN [err |-> "ValueError", subs |-> <<>>, clouds2do |-> <<>>]
      \* x2_cent0[subs]: a boolean index must have the array's length
      ELSE IF Len(los_vel) # n \/ Len(x2) # n
           THEN [err |-> "IndexError", subs |-> <<>>, clouds2do |-> <<>>]
      ELSE [err |-> "none", subs |-> subs, clouds2do |-> Rows(n)]

\* A flattened index whose x stride is taken from the x extent of the grid.
histo_with_bincount_xstride(vals, bins) ==
  LET cd == [k \in 1..Len(vals) |->
               vals[k][3] + (bins[3] * vals[k][2]) + ((bins[3] * bins[1]) * vals[k][1])]
      bincount == [l \in 0..((bins[1] * bins[2] * bins[3]) - 1) |->
                     Cardinality({k \in 1..Len(vals) : cd[k] = l})]
  IN  Array([q \in (0..(bins[1] - 1)) \X (0..(bins[2] - 1)) \X (0..(bins[3] - 1)) |->
               bincount[(q[1] * bins[2] * bins[3]) + (q[2] * bins[3]) + q[3]]])

\* histo_with_bincount: one flattened index per cloud, counted, reshaped.
histo_with_bincount(vals, bins) ==
  LET cd == [k \in 1..Len(vals) |->
               vals[k][3] + (bins[3] * vals[k][2]) + ((bins[3] * bins[2]) * vals[k][1])]
      bincount == [l \in 0..((bins[1] * bins[2] * bins[3]) - 1) |->
                     Cardinality({k \in 1..Len(vals) : cd[k] = l})]
  IN  Array([q \in (0..(bins[1] - 1)) \X (0..(bins[2] - 1)) \X (0..(bins[3] - 1)) |->
               bincount[(q[1] * bins[2] * bins[3]) + (q[2] * bins[3]) + q[3]]])

\* A histogram that counts the clouds of a voxel, whatever their weights.
WeightAt_count(vals, weights, q, k) == Cardinality({j \in 1..k : vals[j] = q})

\* np.histogramdd(clouds2do, bins, range, weights): the weights summed per voxel.
RECURSIVE WeightAt(_, _, _, _)
WeightAt(vals, weights, q, k) ==
  IF k = 0 THEN 0
  ELSE WeightAt(vals, weights, q, k - 1) + (IF vals[k] = q THEN weights[k] ELSE 0)

\* The rows of a 1-D array a boolean mask of its length selects.
RECURSIVE Masked(_, _, _)
Masked(arr, subs, k) ==
  IF k = 0 THEN <<>>
  ELSE IF subs[k] THEN Append(Masked(arr, subs, k - 1), arr[k])
  ELSE Masked(arr, subs, k - 1)

\* The length add_fluxes requires of flux_clouds: max(self.inClouds.shape),
\* inClouds having the shape (n, 3).
FluxLenWanted(n) == Max2(n, 3)

\* An add_fluxes that validates flux_clouds whether or not a cloud is kept.
FluxChecked_always(nsubs) == TRUE

\* Does add_fluxes look at flux_clouds at all?
FluxChecked(nsubs) == nsubs > 0

\* add_fluxes.  n is the number of rows of self.inClouds.
add_fluxes(self, cfg, clouds2do, subs, n) ==
  LET nsubs == Cardinality({k \in 1..Len(subs) : subs[k]})
      zeros == Array([q \in Voxels(self) |-> 0])
  IN  IF FluxChecked(nsubs)
      THEN IF cfg.flux_clouds.given
           THEN IF ~self.inClouds_given THEN [err |-> "KinMSError", cube |-> zeros]
                ELSE IF Len(cfg.flux_clouds.v) # FluxLenWanted(n)
                     THEN [err |-> "KinMSError", cube |-> zeros]
                \* self.flux_clouds[subs]
                ELSE IF Len(cfg.flux_clouds.v) # Len(subs)
                     THEN [err |-> "IndexError", cube |-> zeros]
                ELSE LET w == Masked(cfg.flux_clouds.v, subs, Len(subs))
                     IN  [err |-> "none",
                          cube |-> Array([q \in Voxels(self) |->
                                            WeightAt(clouds2do, w, q, Len(clouds2do))])]
           ELSE [err |-> "none",
                 cube |-> histo_with_bincount(clouds2do, <<self.x_size, self.y_size, self.v_size>>)]
      ELSE [err |-> "none", cube |-> zeros]

(***************************************************************************)
(* Convolution and normalisation.  A cube is [v, den]: voxel q holds        *)
(* v[q] / den, in lowest terms over the whole cube; den = 0 is the cube of  *)
(* non-finite voxels a division by zero leaves.                            *)
(***************************************************************************)
RECURSIVE GcdOf(_)
GcdOf(s) == IF s = <<>> THEN 0 ELSE GCD(Head(s), GcdOf(Tail(s)))

GcdSeq(s) == GcdOf(s \o <<>>)

\* The voxel of linear index l (C order), and the voxel values in that order.
VoxelAt(self, l) ==
  <<l \div (self.y_size * self.v_size), (l \div self.v_size) % self.y_size, l % self.v_size>>

Flat(self, v) == [l \in 1..(self.x_size * self.y_size * self.v_size) |-> v[VoxelAt(self, l - 1)]]

\* cube.sum(), as the numerator over cube.den
VSum(self, v) == SeqSum(Flat(self, v))

\* The cube of voxel values arr[q] / den, in lowest terms.
Reduced(self, arr, den) ==
  IF den = 0 THEN [v |-> Array([q \in Voxels(self) |-> 0]), den |-> 0]
  ELSE LET g == GCD(GcdSeq(Flat(self, arr)), Abs(den))
           s == IF den < 0 THEN -1 ELSE 1
       IN  [v |-> Array([q \in Voxels(self) |-> (s * arr[q]) \div g]), den |-> (s * den) \div g]

Canon(self, v, den) == Reduced(self, Array(v), den)

\* cube * (a / b)
Scaled(self, cube, a, b) ==
  IF b = 0 \/ cube.den = 0 THEN Canon(self, cube.v, 0)
  ELSE LET f == Frac(a, b)
       IN  Canon(self, [q \in Voxels(self) |-> cube.v[q] * f[1]], cube.den * f[2])

\* psf.sum() as a fraction: <<sum of the weights, scale>>
KernelSum2D(k) ==
  SeqSum([l \in 1..(k.nx * k.ny) |-> k.w[<<(l - 1) \div k.ny, (l - 1) % k.ny>>]])

KernelSum1D(k) == SeqSum([l \in 1..k.n |-> k.w[l - 1]])

\* astropy.convolution.convolve(plane, psf) at pixel (x, y) of channel c,
\* before the division by the kernel's sum (the kernel is normalised to a
\* sum of 1; the boundary is filled with zeros).
convolve2D(self, v, k, x, y, c) ==
  SeqSum([l \in 1..(k.nx * k.ny) |->
            LET a  == (l - 1) \div k.ny
                b  == (l - 1) % k.ny
                xx == (x + a) - (k.nx \div 2)
                yy == (y + b) - (k.ny \div 2)
            IN  IF xx >= 0 /\ xx < self.x_size /\ yy >= 0 /\ yy < self.y_size
                THEN k.w[<<a, b>>] * v[<<xx, yy, c>>] ELSE 0])

\* astropy.convolution.convolve_fft(plane, psf): the same sum, by FFT.
convolve_fft2D(self, v, k, x, y, c) == convolve2D(self, v, k, x, y, c)

\* astropy.convolution.convolve(spectrum, lsf) at channel c of pixel (x, y).
convolve1D(self, v, k, x, y, c) ==
  SeqSum([l \in 1..k.n |->
            LET cc == (c + (l - 1)) - (k.n \div 2)
            IN  IF cc >= 0 /\ cc < self.v_size THEN k.w[l - 1] * v[<<x, y, cc>>] ELSE 0])

\* np.sum(cube[:, :, c]) and np.sum(cube[x, y, :])
ChannelSum(self, v, c) ==
  SeqSum([l \in 1..(self.x_size * self.y_size) |->
            v[<<(l - 1) \div self.y_size, (l - 1) % self.y_size, c>>]])

SpectrumSum(self, v, x, y) == SeqSum([l \in 1..self.v_size |-> v[<<x, y, l - 1>>]])

\* The spatial convolution loop of model_cube (lines 1144-1157).
SpatialStage(self, cube) ==
  IF self.cleanOut THEN cube
  ELSE LET ks   == KernelSum2D(self.psf)
           sums == Array([c \in 0..(self.v_size - 1) |-> ChannelSum(self, cube.v, c)])
       IN  Canon(self,
                 [q \in Voxels(self) |->
                    IF sums[q[3]] > 0
                    THEN (IF ~self.huge_beam
                          THEN convolve2D(self, cube.v, self.psf, q[1], q[2], q[3])
                          ELSE convolve_fft2D(self, cube.v, self.psf, q[1], q[2], q[3]))
                    ELSE cube.v[q] * ks],
                 cube.den * ks)

\* The spectral convolution loop of model_cube (lines 1160-1166).
SpectralStage(self, cube) ==
  IF self.lsf_fwhm = 0 THEN cube
  ELSE LET ks   == KernelSum1D(self.lsf)
           sums == Array([p \in (0..(self.x_size - 1)) \X (0..(self.y_size - 1)) |->
                            SpectrumSum(self, cube.v, p[1], p[2])])
       IN  Canon(self,
                 [q \in Voxels(self) |->
                    IF sums[<<q[1], q[2]>>] > 0
                    THEN convolve1D(self, cube.v, self.lsf, q[1], q[2], q[3])
                    ELSE cube.v[q] * ks],
                 cube.den * ks)

\* A normaliser that looks at flux_clouds before intFlux.
normalise_cube_weights_first(self, cfg, cube) ==
  IF cfg.flux_clouds.given
  THEN [inplace |-> cube, ret |-> cube]
  ELSE IF cfg.intFlux > 0
  THEN LET c2 == IF ~self.cleanOut
                 THEN Scaled(self, cube, cfg.intFlux * KernelSum2D(self.psf) * cube.den,
                             self.psf.scale * VSum(self, cube.v) * self.dv)
                 ELSE Scaled(self, cube, cfg.intFlux * cube.den, VSum(self, cube.v) * self.dv)
       IN  [inplace |-> c2, ret |-> c2]
  ELSE LET c2 == Scaled(self, cube, cube.den, VSum(self, cube.v))
       IN  [inplace |-> c2, ret |-> c2]

\* normalise_cube(cube, psf): the array object `cube` as the call leaves it
\* (inplace) and the value the call returns (ret).
normalise_cube(self, cfg, cube) ==
  IF cfg.intFlux > 0
  THEN LET c2 == IF ~self.cleanOut
                 THEN Scaled(self, cube, cfg.intFlux * KernelSum2D(self.psf) * cube.den,
                             self.psf.scale * VSum(self, cube.v) * self.dv)
                 ELSE Scaled(self, cube, cfg.intFlux * cube.den, VSum(self, cube.v) * self.dv)
       IN  [inplace |-> c2, ret |-> c2]
  ELSE IF cfg.flux_clouds.given
  THEN [inplace |-> cube, ret |-> cube]
  ELSE LET c2 == Scaled(self, cube, cube.den, VSum(self, cube.v))
       IN  [inplace |-> c2, ret |-> c2]

(***************************************************************************)
(* model_cube.  cfg holds the call's arguments: inc, posAng, gasSigma,      *)
(* diskThick, sbProf, sbRad, velRad, velProf, vLOS_clouds, massDist,        *)
(* vPosAng (1-D arrays; a scalar is the array of that one value, as lines   *)
(* 1034-1088 make it), inClouds (rows <<x, y, z>>), flux_clouds (given:     *)
(* not None; v: the array), intFlux (0: None), phaseCent, vOffset,          *)
(* vPhaseCent, returnClouds.  fileName is empty and toplot False.           *)
(*                                                                         *)
(* The result holds self as the call leaves it, what the caller gets (ret:  *)
(* kind "cube" or the exception's name, the cube, and the clouds and los    *)
(* velocities when returnClouds is set) and the call's intermediate values  *)
(* (tr): the last stage entered, subs, the grid add_fluxes built, the cube  *)
(* after the spatial loop, the cube before normalise_cube, and whether the  *)
(* positions were projected.                                                *)
(***************************************************************************)
EmptyCube == [v |-> <<>>, den |-> 1]

NoTrace == [stage |-> "none", n |-> 0, x |-> <<>>, y |-> <<>>, los_vel |-> <<>>,
            subs |-> <<>>, grid |-> <<>>, spatial |-> EmptyCube,
            prenorm |-> EmptyCube, returned |-> EmptyCube,
            projected |-> FALSE, velProf |-> <<>>,
            \* the caller's velProf array as the call leaves it
            velProf_arg |-> <<>>,
            \* the clouds of the call, the numbers the call drew from a generator
            \* of its own, their radii and the warps resolved on them
            inClouds |-> <<>>, sampled |-> FALSE, drawn |-> 0, r_flat |-> <<>>,
            velRad |-> <<>>, inc_rad |-> <<>>, posAng_rad |-> <<>>]

Raised(self, e, tr) ==
  [self |-> self, ret |-> [kind |-> e, cube |-> EmptyCube, clouds |-> <<>>, los |-> <<>>],
   tr |-> tr]

\* A return statement that hands back only the clouds the bounds test kept.
model_cube_return_kept(self, cfg, vel, t5, norm) ==
  [self |-> self,
   ret  |-> [kind |-> "cube", cube |-> norm.inplace,
             clouds |-> IF cfg.returnClouds
                        THEN Masked([k \in 1..self.nSamps |-> <<vel.x[k], vel.y[k], vel.z[k]>>],
                                    t5.subs, Len(t5.subs))
                        ELSE <<>>,
             los |-> IF cfg.returnClouds THEN Masked(vel.los_vel, t5.subs, Len(t5.subs))
                     ELSE <<>>],
   tr   |-> [t5 EXCEPT !.returned = norm.ret]]

\* A return statement that hands back the clouds as they were before the
\* projection.
model_cube_return_unprojected(self, cfg, vel, t5, norm) ==
  [self |-> self,
   ret  |-> [kind |-> "cube", cube |-> norm.inplace,
             clouds |-> IF cfg.returnClouds THEN t5.inClouds ELSE <<>>,
             los |-> IF cfg.returnClouds THEN vel.los_vel ELSE <<>>],
   tr   |-> [t5 EXCEPT !.returned = norm.ret]]

\* The steps of model_cube, last first; each takes what the steps before it
\* left in the function's local names.
\* Lines 1171-1210: normalise_cube has run; the return statement.
model_cube_return(self, cfg, vel, t5, norm) ==
  [self |-> self,
   \* model_cube returns its own `cube`, the object normalise_cube worked on
   ret  |-> [kind |-> "cube", cube |-> norm.inplace,
             clouds |-> IF cfg.returnClouds
                        THEN [k \in 1..self.nSamps |-> <<vel.x[k], vel.y[k], vel.z[k]>>]
                        ELSE <<>>,
             los |-> IF cfg.returnClouds THEN vel.los_vel ELSE <<>>],
   tr   |-> [t5 EXCEPT !.returned = norm.ret]]

\* Line 1171: the convolved cube is normalised.
model_cube_normalise(self, cfg, vel, t4, conv) ==
  model_cube_return(self, cfg, vel, [t4 EXCEPT !.stage = "done", !.prenorm = conv],
                    normalise_cube(self, cfg, conv))

\* Lines 1160-1166: the cube the spatial loop left goes through the spectral
\* loop.
model_cube_spectral(self, cfg, vel, t4, spat) ==
  model_cube_normalise(self, cfg, vel, [t4 EXCEPT !.spatial = spat], SpectralStage(self, spat))

\* A model_cube whose spectral loop runs before its spatial loop.
model_cube_convolve_spectral_first(self, cfg, vel, t4, flux) ==
  IF flux.err # "none" THEN Raised(self, flux.err, t4)
  ELSE model_cube_normalise(self, cfg, vel,
                            [t4 EXCEPT !.grid = flux.cube,
                                       !.spatial = SpatialStage(self, SpectralStage(self, [v |-> flux.cube, den |-> 1]))],
                            SpatialStage(self, SpectralStage(self, [v |-> flux.cube, den |-> 1])))

\* Lines 1144-1157: the grid add_fluxes built goes through the spatial loop.
model_cube_convolve(self, cfg, vel, t4, flux) ==
  IF flux.err # "none" THEN Raised(self, flux.err, t4)
  ELSE model_cube_spectral(self, cfg, vel, [t4 EXCEPT !.grid = flux.cube],
                           SpatialStage(self, [v |-> flux.cube, den |-> 1]))

\* Lines 1134-1138: add_fluxes on the clouds find_clouds_in_cube kept.
model_cube_add_fluxes(self, cfg, vel, t3, found) ==
  IF found.err # "none" THEN Raised(self, found.err, t3)
  ELSE model_cube_convolve(self, cfg, vel,
                           [t3 EXCEPT !.stage = "add_fluxes", !.subs = found.subs],
                           add_fluxes(self, cfg, found.clouds2do, found.subs, t3.n))

\* Lines 1126-1131: find_clouds_in_cube on the projected clouds.
model_cube_find(self, cfg, t2, vel) ==
  IF vel.err # "none" THEN Raised(self, vel.err, t2)
  ELSE model_cube_add_fluxes(self, cfg, vel,
                             [t2 EXCEPT !.stage = "find", !.x = vel.x, !.y = vel.y,
                                        !.los_vel = vel.los_vel,
                                        !.projected = vel.projected,
                                        !.velProf = vel.velProf, !.velRad = vel.velRad,
                                        \* self.velProf is np.array(velProf), a copy
                                        \* (line 1086), and line 734 binds a new array
                                        !.velProf_arg = cfg.velProf,
                                        !.inc_rad = vel.inc_rad,
                                        !.posAng_rad = vel.posAng_rad],
                             find_clouds_in_cube(self, vel.los_vel, Cent(self, cfg),
                                                 vel.x, vel.y))

\* Lines 1118-1124: set_cloud_positions and set_cloud_velocities.
model_cube_velocities(self, cfg, t1, gen) ==
  IF gen.err # "none" THEN Raised(self, gen.err, [t1 EXCEPT !.drawn = gen.drawn])
  ELSE model_cube_find(self, cfg,
                       [t1 EXCEPT !.stage = "velocities", !.n = Len(gen.inClouds),
                                  !.inClouds = gen.inClouds, !.drawn = gen.drawn,
                                  !.r_flat = set_cloud_positions(gen.inClouds).r_flat],
                       set_cloud_velocities(self, cfg, set_cloud_positions(gen.inClouds)))

\* A model_cube that cuts the dispersion stream of the instance down to the
\* clouds of the call.
model_cube_consuming(self, cfg) ==
  LET given == Len(cfg.inClouds) # 0
      s1    == [self EXCEPT !.inClouds_given = given,
                            !.nSamps = IF given THEN Len(cfg.inClouds) ELSE @,
                            !.randompick_vdisp =
                              IF given THEN SubSeq(@, 1, Min2(Len(cfg.inClouds), Len(@))) ELSE @]
  IN  model_cube_velocities(s1, cfg,
                            [NoTrace EXCEPT !.stage = "generate",
                                            !.sampled = Len(cfg.inClouds) < 1],
                            IF Len(cfg.inClouds) < 1 THEN generate_cloudlets(s1, cfg)
                            ELSE [err |-> "none", inClouds |-> cfg.inClouds, drawn |-> 0])

\* Lines 1008-1116: the arguments become fields of self (nSamps and
\* inClouds_given among them), then the clouds are sampled unless given.
model_cube(self, cfg) ==
  LET given == Len(cfg.inClouds) # 0
      s1    == [self EXCEPT !.inClouds_given = given,
                            !.nSamps = IF given THEN Len(cfg.inClouds) ELSE @]
  IN  model_cube_velocities(s1, cfg,
                            [NoTrace EXCEPT !.stage = "generate",
                                            !.sampled = Len(cfg.inClouds) < 1],
                            IF Len(cfg.inClouds) < 1 THEN generate_cloudlets(s1, cfg)
                            ELSE [err |-> "none", inClouds |-> cfg.inClouds, drawn |-> 0])

(***************************************************************************)
(* The state machine.  kinms maps each constructed instance to its fields; *)
(* last maps it to its most recent model_cube call (arguments, outcome and  *)
(* intermediate values) and the number of calls made on it so far.          *)
(***************************************************************************)
VARIABLES kinms, last

vars == <<kinms, last>>

\* Bounds of the model: the largest nSamps an instance is constructed with,
\* the largest number of explicit clouds (inClouds) of a call, and the number
\* of model_cube calls made on one instance.
MaxSamps == 3

MaxClouds == 3

MaxCalls == 2

\* ---- the inputs the model draws from ----
\* Constructor arguments.  A cube of 3 x 3 pixels and 3 channels of 2 km/s, a
\* circular beam of FWHM 2 arcsec.
BaseParams ==
  [xs |-> 3, ys |-> 3, vs |-> 6, cellSize |-> 1, dv |-> 2, beamSize |-> <<2>>,
   lsf_fwhm |-> 0, nSamps |-> 2, seed |-> 0, fixSeed |-> TRUE, cleanOut |-> FALSE,
   huge_beam |-> FALSE]

\* The defaults of model_cube's optional arguments, with inc = posAng = 90.
BaseCfg ==
  [inc |-> <<90>>, posAng |-> <<90>>, gasSigma |-> <<0>>, diskThick |-> <<0>>,
   flux_clouds |-> [given |-> FALSE, v |-> <<>>],
   sbProf |-> <<>>, sbRad |-> <<>>, velRad |-> <<>>, velProf |-> <<>>,
   inClouds |-> <<>>, vLOS_clouds |-> <<>>, massDist |-> <<>>, intFlux |-> 0,
   phaseCent |-> <<0, 0>>, vOffset |-> 0, vPosAng |-> <<>>, vPhaseCent |-> <<0, 0>>,
   returnClouds |-> FALSE]

\* A flat brightness profile on radii 1..3 and a flat 2 km/s rotation curve.
SbCfg(b) == IF b THEN [sbRad |-> <<1, 3>>, sbProf |-> <<1, 1>>] ELSE [sbRad |-> <<>>, sbProf |-> <<>>]

VelCfg(b) == IF b THEN <<2, 2>> ELSE <<>>

\* A call with a brightness profile and a rotation curve, and no inClouds.
ProfileCfg ==
  [BaseCfg EXCEPT !.sbRad = SbCfg(TRUE).sbRad, !.sbProf = SbCfg(TRUE).sbProf,
                  !.velProf = VelCfg(TRUE)]

\* Explicit clouds: the first n rows of a fixed layout (the fifth and later
\* rows lie outside every grid of the model), the same with the first row
\* outside, or n rows all outside.
CloudAt(k) ==
  IF k = 1 THEN <<0, 0, 0>>
  ELSE IF k = 2 THEN <<1, 0, 0>>
  ELSE IF k = 3 THEN <<0, -1, 1>>
  ELSE IF k = 4 THEN <<-1, 1, 0>>
  ELSE <<2 * k, 0, 0>>

Layouts == {"inside", "edge", "outside"}

Clouds(layout, n) ==
  [k \in 1..n |-> IF layout = "inside" THEN CloudAt(k)
                  ELSE IF layout = "edge" THEN (IF k = 1 THEN <<7, 0, 0>> ELSE CloudAt(k))
                  ELSE <<7 + k, 0, 0>>]

\* Explicit los velocities and flux weights of a given length.
LosOf(n) == [k \in 1..n |-> 2 * ((k % 3) - 1)]

FluxOf(n) == [given |-> TRUE, v |-> [k \in 1..n |-> k]]

NoFlux == [given |-> FALSE, v |-> <<>>]

\* A call with n explicit clouds and their los velocities.
ExplicitCfg(layout, n) ==
  [BaseCfg EXCEPT !.inClouds = Clouds(layout, n), !.vLOS_clouds = LosOf(n)]

NoCall == [calls |-> 0, cfg |-> BaseCfg,
           ret |-> [kind |-> "none", cube |-> EmptyCube, clouds |-> <<>>, los |-> <<>>],
           tr |-> NoTrace]

\* ---- actions ----
\* One model_cube call on instance i.
Call(i, cfg) ==
  /\ last[i].calls < MaxCalls
  /\ LET r == model_cube(kinms[i], cfg)
     IN  /\ kinms' = [kinms EXCEPT ![i] = r.self]
         /\ last'  = [last EXCEPT ![i] = [calls |-> last[i].calls + 1, cfg |-> cfg,
                                          ret |-> r.ret, tr |-> r.tr]]

\* ---- Spec: one instance, calls that exercise the input validation ----
MassDists == {<<>>, <<20000>>, <<20000, 1>>, <<20000, 1, 1>>}

\* Calls without inClouds: with or without each profile; with flux weights,
\* the clouds inside or (vOffset = 20) all outside the cube; with a massDist,
\* on the radii of the brightness profile or on radii that start at 0.
ProfileCalls ==
  {[BaseCfg EXCEPT !.sbRad = SbCfg(sb).sbRad, !.sbProf = SbCfg(sb).sbProf,
                   !.velProf = VelCfg(vel)] : sb \in BOOLEAN, vel \in BOOLEAN}
  \cup {[ProfileCfg EXCEPT !.flux_clouds = fl, !.vOffset = off]
          : fl \in {NoFlux, FluxOf(2)}, off \in {0, 20}}
  \cup {[ProfileCfg EXCEPT !.massDist = md] : md \in MassDists}
  \cup {[ProfileCfg EXCEPT !.massDist = <<20000, 1>>, !.velRad = <<0, 3>>]}

\* Calls with inClouds: with explicit los velocities and flux weights of every
\* length (the clouds inside, or all outside), or with a rotation curve (or
\* nothing) and a massDist, or with a rotation curve and a velocity dispersion.
ExplicitCalls ==
  {[ExplicitCfg("inside", n) EXCEPT !.flux_clouds = fl]
     : n \in 1..MaxClouds, fl \in {NoFlux} \cup {FluxOf(l) : l \in 1..(MaxClouds + 1)}}
  \cup {[ExplicitCfg("outside", 2) EXCEPT !.flux_clouds = fl] : fl \in {NoFlux, FluxOf(1)}}
  \cup {[BaseCfg EXCEPT !.inClouds = Clouds("inside", 2),
                        !.velRad = IF vel THEN <<1, 3>> ELSE <<>>,
                        !.velProf = VelCfg(vel), !.massDist = md]
          : vel \in BOOLEAN, md \in MassDists}
  \cup {[BaseCfg EXCEPT !.inClouds = Clouds("inside", n), !.velRad = <<1, 3>>,
                        !.velProf = VelCfg(TRUE), !.gasSigma = <<1>>, !.inc = <<inc>>]
          : n \in 1..MaxClouds, inc \in {0, 90}}

Init ==
  /\ \E n \in 1..MaxSamps :
       kinms = [i \in {1} |-> KinMS_init([BaseParams EXCEPT !.nSamps = n], 1)]
  /\ last = [i \in {1} |-> NoCall]

CallProfile(i) == \E cfg \in ProfileCalls : Call(i, cfg)

CallExplicit(i) == \E cfg \in ExplicitCalls : Call(i, cfg)

Next == \E i \in DOMAIN kinms : CallProfile(i) \/ CallExplicit(i)

Spec == Init /\ [][Next]_vars

\* ---- SpecFlux: one instance, calls that exercise binning and normalisation ----
\* Instances with and without the beam, with and without a line spread
\* function, with pixels of 1 or 2 arcsec (the cube stays 3 x 3 x 3).
FluxParams ==
  {[BaseParams EXCEPT !.cellSize = cell, !.xs = 3 * cell, !.ys = 3 * cell,
                      !.beamSize = <<2 * cell>>, !.cleanOut = clean, !.lsf_fwhm = lsf,
                      !.nSamps = MaxSamps]
     : cell \in {1, 2}, clean \in BOOLEAN, lsf \in {0, 4}}

\* With or without a target flux; explicit clouds (all inside, one outside,
\* all outside) with or without flux weights, or sampled clouds that are
\* inside or (vOffset = 20) all outside.
\* Sampled clouds on a thick disc seen edge-on or face-on, at position angles
\* of 0, 90 and 180 degrees.
TiltedCalls ==
  {[ProfileCfg EXCEPT !.inc = <<inc>>, !.posAng = <<pa>>, !.diskThick = <<1>>]
     : inc \in {0, 90}, pa \in {0, 90, 180}}

TargetCalls ==
  {[ExplicitCfg(lay, MaxClouds) EXCEPT !.flux_clouds = fl, !.intFlux = 3]
     : lay \in Layouts, fl \in {NoFlux, FluxOf(MaxClouds)}}
  \cup {[ProfileCfg EXCEPT !.vOffset = off, !.intFlux = 3] : off \in {0, 20}}
  \cup {[c EXCEPT !.intFlux = 3] : c \in TiltedCalls}

PlainCalls ==
  {[ExplicitCfg(lay, MaxClouds) EXCEPT !.flux_clouds = fl]
     : lay \in Layouts, fl \in {NoFlux, FluxOf(MaxClouds)}}
  \cup {[ProfileCfg EXCEPT !.vOffset = off] : off \in {0, 20}}
  \cup TiltedCalls

InitFlux ==
  /\ \E p \in FluxParams : kinms = [i \in {1} |-> KinMS_init(p, 1)]
  /\ last = [i \in {1} |-> NoCall]

CallTarget(i) == \E cfg \in TargetCalls : Call(i, cfg)

CallPlain(i) == \E cfg \in PlainCalls : Call(i, cfg)

NextFlux == \E i \in DOMAIN kinms : CallTarget(i) \/ CallPlain(i)

SpecFlux == InitFlux /\ [][NextFlux]_vars

\* ---- SpecTwin: two instances constructed with the same arguments ----
\* np.random.randint gives the two constructors different values.
TwinParams ==
  {[BaseParams EXCEPT !.seed = sd, !.nSamps = MaxSamps, !.cleanOut = TRUE] : sd \in {0, 2}}

\* Sampled clouds (thin or thick disc, with a velocity dispersion) and explicit
\* clouds on a rotation curve, the clouds returned or not.
TwinCalls ==
  {[ProfileCfg EXCEPT !.diskThick = <<th>>, !.gasSigma = <<1>>, !.returnClouds = rc]
     : th \in {0, 1}, rc \in BOOLEAN}
  \cup {[BaseCfg EXCEPT !.inClouds = Clouds("inside", 2), !.velRad = <<1, 3>>,
                        !.velProf = VelCfg(TRUE), !.gasSigma = <<1>>, !.returnClouds = rc]
          : rc \in BOOLEAN}

InitTwin ==
  /\ \E p \in TwinParams : kinms = [i \in {1, 2} |-> KinMS_init(p, i)]
  /\ last = [i \in {1, 2} |-> NoCall]

CallTwin(i) == \E cfg \in TwinCalls : Call(i, cfg)

NextTwin == \E i \in DOMAIN kinms : CallTwin(i)

SpecTwin == InitTwin /\ [][NextTwin]_vars

\* Calls on a rotation curve with warped or flat inclination, position angle
\* and kinematic position angle, on one instance.
WarpParams == [BaseParams EXCEPT !.nSamps = MaxSamps]

\* A parameter that is a single angle, or an array of two or three angles.
WarpArrays == {<<90>>, <<0, 180>>, <<90, 90, 90>>}

\* The radius grids of the call: sampled clouds with velRad left to default to
\* sbRad or given with three radii, explicit clouds with no sbRad or with one.
WarpGrids ==
  {ProfileCfg,
   [ProfileCfg EXCEPT !.velRad = <<1, 2, 3>>, !.velProf = <<2, 2, 2>>],
   [BaseCfg EXCEPT !.inClouds = Clouds("inside", 2), !.velRad = <<1, 3>>,
                   !.velProf = VelCfg(TRUE)],
   [ProfileCfg EXCEPT !.inClouds = Clouds("inside", 2), !.velRad = <<1, 3>>]}

WarpCalls ==
  {[g EXCEPT !.inc = a, !.posAng = b] : g \in WarpGrids, a \in WarpArrays, b \in WarpArrays}

KinWarpCalls ==
  {[g EXCEPT !.vPosAng = a] : g \in WarpGrids, a \in WarpArrays}

InitWarp ==
  /\ kinms = [i \in {1} |-> KinMS_init(WarpParams, 1)]
  /\ last = [i \in {1} |-> NoCall]

CallWarp(i) == \E cfg \in WarpCalls : Call(i, cfg)

CallKinWarp(i) == \E cfg \in KinWarpCalls : Call(i, cfg)

NextWarp == \E i \in DOMAIN kinms : CallWarp(i) \/ CallKinWarp(i)

SpecWarp == InitWarp /\ [][NextWarp]_vars

\* Grids whose extents are not whole multiples of the pixel and channel
\* sizes (3/2, 5/2, 7/2), and grids of 2 x 3 pixels, binned without kernels.
GridParams ==
  {[BaseParams EXCEPT !.xs = xc[1], !.ys = 3, !.vs = vs, !.cellSize = xc[2],
                      !.cleanOut = TRUE, !.nSamps = n]
     : xc \in {<<2, 1>>, <<3, 1>>, <<3, 2>>, <<5, 2>>}, vs \in {6, 7}, n \in {2, MaxSamps}}

\* Explicit clouds in or out of view, with weights or without.
GridExplicitCalls ==
  {[ExplicitCfg(lay, n) EXCEPT !.flux_clouds = fl]
     : lay \in Layouts, n \in {2, MaxClouds}, fl \in {NoFlux, FluxOf(1), FluxOf(MaxClouds)}}

\* Sampled clouds in or out of view, with weights or without.
GridProfileCalls ==
  {[ProfileCfg EXCEPT !.flux_clouds = fl, !.vOffset = off]
     : fl \in {NoFlux, FluxOf(MaxSamps)}, off \in {0, 20}}

InitGrid ==
  /\ \E p \in GridParams : kinms = [i \in {1} |-> KinMS_init(p, 1)]
  /\ last = [i \in {1} |-> NoCall]

CallGridExplicit(i) == \E cfg \in GridExplicitCalls : Call(i, cfg)

CallGridProfile(i) == \E cfg \in GridProfileCalls : Call(i, cfg)

NextGrid == \E i \in DOMAIN kinms : CallGridExplicit(i) \/ CallGridProfile(i)

SpecGrid == InitGrid /\ [][NextGrid]_vars

\* Explicit clouds with signed flux weights, convolved with the beam and, or
\* not, with the line spread function.
WeightParams ==
  {[BaseParams EXCEPT !.lsf_fwhm = lsf, !.huge_beam = hb] : lsf \in {0, 4}, hb \in BOOLEAN}

\* n weights of 1, with at most one of them -2 and at most one of them 0.
SignedFlux(n) ==
  {[given |-> TRUE, v |-> [k \in 1..n |-> IF k = a THEN -2 ELSE IF k = b THEN 0 ELSE 1]]
     : a \in 0..n, b \in 0..n}

\* Up to four clouds half a pixel or one pixel off the centre: each rounds to
\* a voxel of its own.
Apart(n) == [k \in 1..n |-> <<-(k % 2), -((k \div 2) % 2), 0>>]

\* Clouds of the fixed layout (the first one outside the grid or not), and
\* clouds on voxels of their own that share a velocity channel.
SignedCalls ==
  {[ExplicitCfg(lay, MaxClouds) EXCEPT !.flux_clouds = fl]
     : lay \in {"inside", "edge"}, fl \in SignedFlux(MaxClouds)}

ChannelCalls ==
  {[ExplicitCfg("inside", MaxClouds) EXCEPT !.inClouds = Apart(MaxClouds),
                                            !.flux_clouds = fl,
                                            !.vLOS_clouds = [k \in 1..MaxClouds |-> 0]]
     : fl \in SignedFlux(MaxClouds)}

InitWeights ==
  /\ \E p \in WeightParams : kinms = [i \in {1} |-> KinMS_init(p, 1)]
  /\ last = [i \in {1} |-> NoCall]

CallSigned(i) == \E cfg \in SignedCalls : Call(i, cfg)

CallChannel(i) == \E cfg \in ChannelCalls : Call(i, cfg)

NextWeights == \E i \in DOMAIN kinms : CallSigned(i) \/ CallChannel(i)

SpecWeights == InitWeights /\ [][NextWeights]_vars

\* Calls that return their clouds, and calls that are given the clouds and
\* los velocities the call before them returned.
RoundParams ==
  {[BaseParams EXCEPT !.xs = 3 * cell, !.ys = 3 * cell, !.cellSize = cell,
                      !.beamSize = <<2 * cell>>, !.cleanOut = clean, !.nSamps = MaxSamps]
     : cell \in {1, 2}, clean \in BOOLEAN}

\* Sampled clouds on a thin or thick disc with a velocity dispersion; the
\* velocity offsets 4 and 20 put some and all of them outside the cube.
RoundProfileCalls ==
  {[ProfileCfg EXCEPT !.diskThick = <<th>>, !.gasSigma = <<1>>, !.vOffset = off,
                      !.intFlux = t, !.returnClouds = rc]
     : th \in {0, 1}, off \in {0, 4, 20}, t \in {0, 3}, rc \in BOOLEAN}

\* Explicit clouds, the first of them outside the grid.
RoundExplicitCalls ==
  {[ExplicitCfg("edge", n) EXCEPT !.returnClouds = rc] : n \in 2..MaxClouds, rc \in BOOLEAN}

\* The arguments of a call that feeds back what the call l returned.
Feedback(l) == [l.cfg EXCEPT !.inClouds = l.ret.clouds, !.vLOS_clouds = l.ret.los]

InitRound ==
  /\ \E p \in RoundParams : kinms = [i \in {1} |-> KinMS_init(p, 1)]
  /\ last = [i \in {1} |-> NoCall]

CallRoundProfile(i) == \E cfg \in RoundProfileCalls : Call(i, cfg)

CallRoundExplicit(i) == \E cfg \in RoundExplicitCalls : Call(i, cfg)

CallFeedback(i) ==
  /\ last[i].ret.kind = "cube" /\ last[i].cfg.returnClouds /\ last[i].tr.sampled
  /\ Call(i, Feedback(last[i]))

NextRound ==
  \E i \in DOMAIN kinms : CallRoundProfile(i) \/ CallRoundExplicit(i) \/ CallFeedback(i)

SpecRound == InitRound /\ [][NextRound]_vars

\* Sampled discs of zero, constant and radius-dependent thickness.
DiskParams ==
  {[BaseParams EXCEPT !.nSamps = n, !.cleanOut = TRUE] : n \in {2, MaxSamps}}

\* A scalar thickness, and thickness profiles of two and three radii.
DiskThicks ==
  {<<0>>, <<1>>, <<0, 0>>, <<0, 1>>, <<1, 1>>, <<0, 0, 0>>, <<0, 0, 1>>, <<1, 1, 1>>}

\* Brightness profiles on two and on three radii.
DiskProfileCalls ==
  {[ProfileCfg EXCEPT !.diskThick = th, !.returnClouds = rc]
     : th \in DiskThicks, rc \in BOOLEAN}
  \cup {[ProfileCfg EXCEPT !.sbRad = <<1, 2, 3>>, !.sbProf = <<1, 1, 1>>,
                           !.velProf = <<2, 2, 2>>, !.diskThick = th]
          : th \in DiskThicks}

DiskExplicitCalls ==
  {[ExplicitCfg("inside", n) EXCEPT !.diskThick = th] : n \in 1..MaxClouds, th \in {<<0>>, <<1>>}}

InitDisk ==
  /\ \E p \in DiskParams : kinms = [i \in {1} |-> KinMS_init(p, 1)]
  /\ last = [i \in {1} |-> NoCall]

CallDiskProfile(i) == \E cfg \in DiskProfileCalls : Call(i, cfg)

CallDiskExplicit(i) == \E cfg \in DiskExplicitCalls : Call(i, cfg)

NextDisk == \E i \in DOMAIN kinms : CallDiskProfile(i) \/ CallDiskExplicit(i)

SpecDisk == InitDisk /\ [][NextDisk]_vars

\* ---- SpecBeam: instances of every beam shape, grid size and line width ----
\* Beam specifications in arcsec: a scalar, two values (in order and
\* reversed), and three values with position angles in and out of [0, 360).
Beams ==
  {<<2>>, <<6>>, <<6, 2>>, <<2, 6>>, <<2, 6, 90>>}
  \cup {<<6, 2, pa>> : pa \in {-90, 0, 90, 180, 270, 360}}

\* Grids of 1 x 1 to 5 x 5 pixels of 3 arcsec and one channel, with a beam;
\* grids of 2 x 2 pixels and 1 to 7 channels of 3 km/s, with a line spread
\* function of FWHM 2 or 6 km/s.
BeamParams ==
  {[BaseParams EXCEPT !.cellSize = 3, !.xs = 3 * x, !.ys = 3 * y, !.vs = 2, !.beamSize = b]
     : x \in 1..5, y \in 1..5, b \in Beams}

LsfParams ==
  {[BaseParams EXCEPT !.cellSize = 3, !.xs = 6, !.ys = 6, !.beamSize = <<6>>,
                      !.dv = 3, !.vs = 3 * v, !.lsf_fwhm = w]
     : v \in 1..7, w \in {2, 6}}

\* A sampled call, and explicit clouds in or out of view.
BeamProfileCalls == {[ProfileCfg EXCEPT !.intFlux = t] : t \in {0, 3}}

BeamExplicitCalls == {ExplicitCfg(lay, 2) : lay \in {"inside", "outside"}}

InitBeam ==
  /\ \E p \in BeamParams \cup LsfParams : kinms = [i \in {1} |-> KinMS_init(p, 1)]
  /\ last = [i \in {1} |-> NoCall]

CallBeamProfile(i) == \E cfg \in BeamProfileCalls : Call(i, cfg)

CallBeamExplicit(i) == \E cfg \in BeamExplicitCalls : Call(i, cfg)

NextBeam == \E i \in DOMAIN kinms : CallBeamProfile(i) \/ CallBeamExplicit(i)

SpecBeam == InitBeam /\ [][NextBeam]_vars

(***************************************************************************)
(* Properties.  Called(i): a model_cube call has been made on instance i;   *)
(* its arguments are last[i].cfg, its outcome last[i].ret.                  *)
(***************************************************************************)
Called(i) == last[i].calls > 0

\* The call returned a cube (it raised nothing).
Done(i) == Called(i) /\ last[i].tr.stage = "done"

\* Instance k as its constructor left it: model_cube assigns nSamps and
\* inClouds_given and no other field of the model.
Constructed(k) == [k EXCEPT !.nSamps = Len(k.randompick_r), !.inClouds_given = FALSE]

\* sum(cube) as a fraction in lowest terms (<<s, 0>>: not finite).
CubeSum(k, cube) == Frac(VSum(k, cube.v), cube.den)

\* ---- C1 ----
\* C1: the outcome of a model_cube call (the cube returned or the error
\* raised) is the outcome the same call has on the instance as constructed,
\* whatever calls were made on the instance before.
C1_HistoryIndependence ==
  \A i \in DOMAIN kinms :
    Called(i) => last[i].ret = model_cube(Constructed(kinms[i]), last[i].cfg).ret

\* ---- C2 ----
\* Two instances constructed with the same arguments and a fixed seed, each
\* called once with the same arguments, have the same outcome.
TwinSame ==
  (last[1].calls = 1 /\ last[2].calls = 1 /\ last[1].cfg = last[2].cfg)
    => last[1].ret = last[2].ret

\* A call without inClouds that repeats the call before it on the same
\* instance has the same outcome.
RepeatSame ==
  \A i \in DOMAIN kinms :
    (Called(i) /\ last'[i].calls = last[i].calls + 1 /\ last'[i].cfg = last[i].cfg
       /\ Len(last[i].cfg.inClouds) = 0)
      => last'[i].ret = last[i].ret

\* C2: determinism.  Two instances with identical constructor arguments and
\* fixed seed, each called once with identical arguments, return identical
\* cubes, clouds and los velocities; and two consecutive identical calls
\* without inClouds on one instance return the same.
C2_Determinism == []TwinSame /\ [][RepeatSame]_vars

\* Both instances were called once with the same arguments, asked for the
\* clouds, and returned a cube with them.
C2_Witness ==
  /\ last[1].calls = 1 /\ last[2].calls = 1 /\ last[1].cfg = last[2].cfg
  /\ last[1].cfg.returnClouds /\ Len(last[1].cfg.inClouds) = 0
  /\ last[1].ret.kind = "cube" /\ Len(last[1].ret.clouds) = MaxSamps
  /\ last[2].ret.kind = "cube"

\* ---- C3 ----
\* The pixel indices of cloud j of instance i's last call:
\* round(x + centX), round(y + centY), round(los / dv + centV).
CloudIndex(i, j) ==
  LET k == kinms[i]
      c == last[i].cfg
      t == last[i].tr
  IN  <<RoundHalfEven((2 * t.x[j]) + (k.x_size * k.cellSize) + (2 * c.phaseCent[1]),
                      2 * k.cellSize),
        RoundHalfEven((2 * t.y[j]) + (k.y_size * k.cellSize) + (2 * c.phaseCent[2]),
                      2 * k.cellSize),
        RoundHalfEven((2 * t.los_vel[j]) + (k.v_size * k.dv) + (2 * c.vOffset), 2 * k.dv)>>

InView(i, j) ==
  /\ 0 <= CloudIndex(i, j)[1] /\ CloudIndex(i, j)[1] < kinms[i].x_size
  /\ 0 <= CloudIndex(i, j)[2] /\ CloudIndex(i, j)[2] < kinms[i].y_size
  /\ 0 <= CloudIndex(i, j)[3] /\ CloudIndex(i, j)[3] < kinms[i].v_size

\* What cloud j adds to its voxel: its flux weight, or 1 without weights.
CloudFlux(i, j) ==
  IF last[i].cfg.flux_clouds.given THEN last[i].cfg.flux_clouds.v[j] ELSE 1

\* C3: field-of-view truncation.  A cloud contributes to the grid before
\* convolution if and only if its three rounded indices lie in the cube: the
\* mask keeps exactly those clouds, every voxel holds exactly what the kept
\* clouds of that index add, and a call that drops clouds raises nothing.
C3_FieldOfView ==
  \A i \in DOMAIN kinms :
    (Called(i) /\ last[i].tr.stage \in {"add_fluxes", "done"}) =>
      LET t == last[i].tr
          n == Len(t.x)
      IN  /\ Len(t.subs) = n
          /\ \A j \in 1..n : t.subs[j] <=> InView(i, j)
          /\ Done(i)
          /\ last[i].ret.kind = "cube"
          /\ \A q \in Voxels(kinms[i]) :
               t.grid[q] = SeqSum([j \in 1..n |->
                                     IF InView(i, j) /\ CloudIndex(i, j) = q
                                     THEN CloudFlux(i, j) ELSE 0])

\* A call that kept some clouds and dropped others, and returned a cube.
C3_Witness ==
  \E i \in DOMAIN kinms :
    /\ Done(i) /\ last[i].ret.kind = "cube"
    /\ \E j \in 1..Len(last[i].tr.subs) : last[i].tr.subs[j]
    /\ \E j \in 1..Len(last[i].tr.subs) : ~last[i].tr.subs[j] /\ ~InView(i, j)

\* ---- C4 ----
\* The cube scaled to the target flux: by intFlux * psf.sum() / (sum * dv)
\* when convolved, by intFlux / (sum * dv) when clean.
TargetScaled(k, c, pre) ==
  IF k.cleanOut
  THEN Scaled(k, pre, c.intFlux * pre.den, VSum(k, pre.v) * k.dv)
  ELSE Scaled(k, pre, c.intFlux * KernelSum2D(k.psf) * pre.den,
              k.psf.scale * VSum(k, pre.v) * k.dv)

\* The cube divided by its sum.
SumScaled(k, pre) == Scaled(k, pre, pre.den, VSum(k, pre.v))

C5_TargetFlux ==
  \A i \in DOMAIN kinms :
    (Done(i) /\ last[i].cfg.intFlux > 0) =>
      LET k == kinms[i]
          T == last[i].cfg.intFlux
          s == CubeSum(k, last[i].ret.cube)
      IN  IF k.cleanOut
          THEN s[2] # 0 /\ s[1] * k.dv = T * s[2]
          ELSE s[2] # 0 /\ s[1] * k.dv * k.psf.scale = T * KernelSum2D(k.psf) * s[2]

\* ---- C6 ----
\* C6: shape model.  With neither a target flux nor flux weights, the cube
\* model_cube returns sums to exactly 1.
C6_ShapeSumsToOne ==
  \A i \in DOMAIN kinms :
    (Done(i) /\ last[i].cfg.intFlux = 0 /\ ~last[i].cfg.flux_clouds.given) =>
      CubeSum(kinms[i], last[i].ret.cube) = <<1, 1>>

\* ---- C7 ----
\* C7: missing-input validation.  A call with no inClouds and no brightness
\* profile, or with no vLOS_clouds and no rotation profile, raises KinMSError
\* before any cloud is binned; with both missing it is raised before the
\* velocities are looked at.
C7_MissingInput ==
  \A i \in DOMAIN kinms :
    Called(i) =>
      LET c        == last[i].cfg
          noClouds == Len(c.inClouds) = 0 /\ (Len(c.sbRad) = 0 \/ Len(c.sbProf) = 0)
          noVel    == Len(c.vLOS_clouds) = 0 /\ Len(c.velProf) = 0
      IN  /\ (noClouds \/ noVel) =>
               /\ last[i].ret.kind = "KinMSError"
               /\ last[i].tr.stage \in {"generate", "velocities"}
          /\ noClouds => last[i].tr.stage = "generate"

\* ---- C8 ----
\* C8: flux-weight length check.  A call with N >= 1 explicit clouds (and
\* their los velocities) and L flux weights raises KinMSError if L # N and
\* returns a cube if L = N.
C8_FluxLength ==
  \A i \in DOMAIN kinms :
    Called(i) =>
      LET c == last[i].cfg
          N == Len(c.inClouds)
          L == Len(c.flux_clouds.v)
      IN  (N >= 1 /\ Len(c.vLOS_clouds) = N /\ c.flux_clouds.given) =>
            /\ L # N => last[i].ret.kind = "KinMSError"
            /\ L = N => last[i].ret.kind = "cube"

\* ---- C9 ----
\* C9: flux weights without explicit clouds.  A call that supplies
\* flux_clouds and no inClouds raises KinMSError.
C9_FluxNeedsClouds ==
  \A i \in DOMAIN kinms :
    (Called(i) /\ last[i].cfg.flux_clouds.given /\ Len(last[i].cfg.inClouds) = 0)
      => last[i].ret.kind = "KinMSError"

\* ---- C10 ----
\* C10: gas-mass/distance validation.  A call that uses a rotation profile
\* and has a non-empty massDist of a length other than 2 raises KinMSError,
\* and the rotation profile is altered only when the length is 2.
C10_MassDistLength ==
  \A i \in DOMAIN kinms :
    Called(i) =>
      LET c    == last[i].cfg
          used == /\ Len(c.vLOS_clouds) = 0 /\ Len(c.velProf) > 0
                  /\ (Len(c.inClouds) > 0 \/ (Len(c.sbRad) > 0 /\ Len(c.sbProf) > 0))
      IN  /\ (used /\ Len(c.massDist) > 0 /\ Len(c.massDist) # 2)
               => last[i].ret.kind = "KinMSError"
          /\ (Done(i) /\ last[i].tr.velProf # c.velProf) => Len(c.massDist) = 2

\* ---- C11 ----
\* self.velRad as set_cloud_velocities leaves it: sbRad when velRad was not given.
VelRadOf(c) == IF Len(c.velRad) = 0 /\ Len(c.sbRad) # 0 THEN c.sbRad ELSE c.velRad

\* The call computes its velocities from the rotation profile.
RotationUsed(i) ==
  /\ Called(i) /\ last[i].tr.stage # "generate"
  /\ Len(last[i].cfg.vLOS_clouds) = 0 /\ Len(last[i].cfg.velProf) > 0

\* An array of more than one value whose length is not that of velRad.
WarpMismatch(c, a) == Len(a) > 1 /\ Len(a) # Len(VelRadOf(c))

\* C11: warp length mismatch.  A call on a rotation profile whose inc, posAng
\* or vPosAng has more than one value and a length other than velRad's fails
\* with KinMSError: with no other exception, and with no cube.
C11_WarpMismatch ==
  \A i \in DOMAIN kinms :
    (RotationUsed(i)
       /\ (\/ WarpMismatch(last[i].cfg, last[i].cfg.inc)
           \/ WarpMismatch(last[i].cfg, last[i].cfg.posAng)
           \/ WarpMismatch(last[i].cfg, last[i].cfg.vPosAng)))
      => last[i].ret.kind = "KinMSError"

\* ---- C12 ----
\* What a warp parameter resolves to on the clouds of call i: the constant,
\* or the linear interpolation on velRad at each cloud's radius.
WarpOf(i, a) ==
  [k \in 1..last[i].tr.n |->
     IF Len(a) = 1 THEN a[1] ELSE Interp(last[i].tr.r_flat[k], VelRadOf(last[i].cfg), a)]

\* A warp parameter create_warp is to accept: one value, or as many as velRad.
WarpFits(c, a) == Len(a) = 1 \/ Len(a) = Len(VelRadOf(c))

\* C12: warp resolution.  On a call whose inc and posAng have one value or
\* as many as velRad (and whose other arguments are valid), create_warp
\* raises nothing and returns the constant, or the per-cloud interpolation on
\* velRad, whatever sbRad is: empty or of another length included.
C12_WarpResolution ==
  \A i \in DOMAIN kinms :
    LET c == last[i].cfg
    IN  (RotationUsed(i) /\ WarpFits(c, c.inc) /\ WarpFits(c, c.posAng)
           /\ Len(c.vPosAng) <= 1 /\ Len(c.velProf) = Len(VelRadOf(c)))
          => /\ last[i].ret.kind = "cube"
             /\ last[i].tr.inc_rad = WarpOf(i, c.inc)
             /\ last[i].tr.posAng_rad = WarpOf(i, c.posAng)

\* ---- C13 ----
\* The voxel indices of a grid of round(xs/cellSize) x round(ys/cellSize) x
\* round(vs/dv) voxels.
GridOf(k) ==
  (0..(RoundHalfEven(k.xs, k.cellSize) - 1)) \X (0..(RoundHalfEven(k.ys, k.cellSize) - 1))
    \X (0..(RoundHalfEven(k.vs, k.dv) - 1))

\* No cloud of the call passed the bounds test.
NoneKept(i) == \A j \in 1..Len(last[i].tr.subs) : ~last[i].tr.subs[j]

\* C13: empty field of view.  When no cloud survives the bounds test,
\* add_fluxes raises nothing and returns the all-zero grid, with flux weights
\* or without; and every grid add_fluxes returns has
\* round(xs/cellSize) x round(ys/cellSize) x round(vs/dv) voxels.
C13_EmptyFieldOfView ==
  \A i \in DOMAIN kinms :
    (Called(i) /\ last[i].tr.stage \in {"add_fluxes", "done"}) =>
      /\ NoneKept(i) => (Done(i) /\ last[i].tr.grid = [q \in GridOf(kinms[i]) |-> 0])
      /\ Done(i) => DOMAIN last[i].tr.grid = GridOf(kinms[i])

\* A call with flux weights of which no cloud was kept, on a grid whose x
\* extent is not a whole number of pixels.
C13_Witness ==
  \E i \in DOMAIN kinms :
    /\ Done(i) /\ NoneKept(i) /\ last[i].tr.n > 0
    /\ last[i].cfg.flux_clouds.given
    /\ kinms[i].x_size * kinms[i].cellSize # kinms[i].xs

\* ---- C14 ----
\* The clouds of call i that pass the bounds test.
Survivors(i) == {j \in 1..last[i].tr.n : InView(i, j)}

\* C14: weighted binning.  On a call with explicit clouds, los velocities and
\* flux weights, every voxel of the grid before convolution is the sum of the
\* weights of the surviving clouds of that index (zero if there is none); and
\* when all clouds are in bounds on pairwise distinct indices, the non-zero
\* voxels are as many as the clouds of non-zero weight, each cloud's voxel
\* holding its weight.
C14_WeightedBinning ==
  \A i \in DOMAIN kinms :
    LET c == last[i].cfg
        w == c.flux_clouds.v
        n == Len(c.inClouds)
    IN  (Done(i) /\ n > 0 /\ Len(c.vLOS_clouds) = n /\ c.flux_clouds.given) =>
          /\ \A q \in Voxels(kinms[i]) :
               last[i].tr.grid[q]
                 = SeqSum([j \in 1..n |-> IF j \in Survivors(i) /\ CloudIndex(i, j) = q
                                          THEN w[j] ELSE 0])
          /\ (/\ Survivors(i) = 1..n
              /\ \A j1, j2 \in 1..n : j1 # j2 => CloudIndex(i, j1) # CloudIndex(i, j2))
               => /\ Cardinality({q \in Voxels(kinms[i]) : last[i].tr.grid[q] # 0})
                       = Cardinality({j \in 1..n : w[j] # 0})
                  /\ \A j \in 1..n : last[i].tr.grid[CloudIndex(i, j)] = w[j]

\* A call with three or more weighted clouds, all in bounds on distinct
\* voxels, one of negative weight and one of zero weight.
C14_Witness ==
  \E i \in DOMAIN kinms :
    /\ Done(i) /\ last[i].cfg.flux_clouds.given /\ last[i].tr.n >= 3
    /\ Survivors(i) = 1..last[i].tr.n
    /\ \A j1, j2 \in 1..last[i].tr.n : j1 # j2 => CloudIndex(i, j1) # CloudIndex(i, j2)
    /\ \E j \in 1..last[i].tr.n : last[i].cfg.flux_clouds.v[j] < 0
    /\ \E j \in 1..last[i].tr.n : last[i].cfg.flux_clouds.v[j] = 0
    /\ \E q \in Voxels(kinms[i]) : last[i].tr.grid[q] < 0

\* ---- C20 ----
\* The spatial and the spectral convolution applied to every channel and to
\* every spectrum, whatever they sum to.
SpatialAll(k, cube) ==
  IF k.cleanOut THEN cube
  ELSE Canon(k, [q \in Voxels(k) |-> convolve2D(k, cube.v, k.psf, q[1], q[2], q[3])],
             cube.den * KernelSum2D(k.psf))

SpectralAll(k, cube) ==
  IF k.lsf_fwhm = 0 THEN cube
  ELSE Canon(k, [q \in Voxels(k) |-> convolve1D(k, cube.v, k.lsf, q[1], q[2], q[3])],
             cube.den * KernelSum1D(k.lsf))

\* C20: skipping channels and spectra has no effect.  The cube model_cube
\* hands to the normaliser is the grid with every channel convolved with the
\* beam and every spectrum with the line spread function, for every grid the
\* binning produces, grids of negative or cancelling flux weights included.
C20_SkippingHasNoEffect ==
  \A i \in DOMAIN kinms :
    Done(i) =>
      last[i].tr.prenorm
        = SpectralAll(kinms[i], SpatialAll(kinms[i], [v |-> last[i].tr.grid, den |-> 1]))

\* ---- C15 ----
\* C15: the clouds returned include the excluded ones.  With returnClouds,
\* model_cube returns one position and one los velocity per cloud of the
\* call, in the order of the clouds: the positions and velocities the bounds
\* test was made on, those that failed it included; for explicit clouds with
\* explicit velocities these are the clouds and velocities supplied.
C15_ReturnsAllClouds ==
  \A i \in DOMAIN kinms :
    (Done(i) /\ last[i].cfg.returnClouds) =>
      LET r == last[i].ret
          t == last[i].tr
      IN  /\ Len(r.clouds) = t.n /\ Len(r.los) = t.n
          /\ \A j \in 1..t.n :
               /\ r.clouds[j][1] = t.x[j] /\ r.clouds[j][2] = t.y[j]
               /\ r.los[j] = t.los_vel[j]
          /\ t.sampled => t.n = kinms[i].nSamps
          /\ (~t.sampled /\ Len(last[i].cfg.vLOS_clouds) > 0)
               => (r.clouds = last[i].cfg.inClouds /\ r.los = last[i].cfg.vLOS_clouds)

\* A call that returned its clouds, some of them kept and some dropped by
\* the bounds test.
C15_Witness ==
  \E i \in DOMAIN kinms :
    /\ Done(i) /\ last[i].cfg.returnClouds
    /\ Len(last[i].ret.clouds) = last[i].tr.n
    /\ \E j \in 1..last[i].tr.n : InView(i, j)
    /\ \E j \in 1..last[i].tr.n : ~InView(i, j) /\ ~last[i].tr.subs[j]

\* ---- C16 ----
\* A call that feeds back the clouds and los velocities the sampled call
\* before it returned, its other arguments unchanged, samples nothing,
\* projects nothing and returns the same cube.
FeedbackSame ==
  \A i \in DOMAIN kinms :
    (/\ Done(i) /\ last[i].tr.sampled /\ last[i].cfg.returnClouds
     /\ last'[i].calls = last[i].calls + 1
     /\ last'[i].cfg = Feedback(last[i]))
      => /\ last'[i].ret.kind = "cube"
         /\ last'[i].ret.cube = last[i].ret.cube
         /\ ~last'[i].tr.sampled /\ ~last'[i].tr.projected /\ last'[i].tr.drawn = 0

\* C16: round trip.  If a profile-based call with returnClouds returns
\* (cube1, clouds, los), the next call on the instance with inClouds = clouds,
\* vLOS_clouds = los and the same offsets and flux options does no sampling
\* and no projection and returns a cube equal to cube1.
C16_RoundTrip == [][FeedbackSame]_vars

\* A call that was fed the clouds of a sampled call and returned a cube in
\* which some cloud is binned and from which some cloud is missing.
C16_Witness ==
  \E i \in DOMAIN kinms :
    /\ Done(i) /\ last[i].calls >= 2
    /\ ~last[i].tr.sampled /\ Len(last[i].cfg.sbRad) > 0
    /\ \E j \in 1..last[i].tr.n : InView(i, j)
    /\ \E j \in 1..last[i].tr.n : ~InView(i, j)
    /\ last[i].ret.cube.den # 0

\* ---- C17 ----
\* The call ran the sampler: no inClouds, and a brightness profile whose
\* radii and values match in number.
SamplerRan(i) ==
  /\ Called(i) /\ last[i].tr.sampled
  /\ Len(last[i].cfg.sbRad) > 0 /\ Len(last[i].cfg.sbRad) = Len(last[i].cfg.sbProf)

AllZero(a) == \A k \in 1..Len(a) : a[k] = 0

\* C17: thin disc.  With a thickness that is zero (one zero, or a profile of
\* zeros) every cloud the sampler produces has z = 0 and nothing is drawn for
\* the thickness; with a thickness entry that is not zero, a thickness
\* profile of more than one value and of another length than sbRad raises
\* KinMSError.
C17_ThinDisc ==
  \A i \in DOMAIN kinms :
    SamplerRan(i) =>
      LET th == last[i].cfg.diskThick
      IN  /\ AllZero(th) =>
               /\ last[i].tr.drawn = 0
               /\ \A j \in 1..Len(last[i].tr.inClouds) : last[i].tr.inClouds[j][3] = 0
          /\ (~AllZero(th) /\ Len(th) > 1 /\ Len(th) # Len(last[i].cfg.sbRad))
               => (last[i].ret.kind = "KinMSError" /\ last[i].tr.stage = "generate")

\* A sampled call with a thickness profile of zeros, of another length than
\* sbRad, that produced its clouds and returned a cube.
C17_Witness ==
  \E i \in DOMAIN kinms :
    /\ SamplerRan(i) /\ Done(i)
    /\ AllZero(last[i].cfg.diskThick)
    /\ Len(last[i].cfg.diskThick) > 1
    /\ Len(last[i].cfg.diskThick) # Len(last[i].cfg.sbRad)
    /\ Len(last[i].tr.inClouds) = kinms[i].nSamps

\* ---- C18 ----
\* A step leaves the kernels, the seed and the three streams of every
\* instance as they were.
CachesKept ==
  \A i \in DOMAIN kinms :
    /\ kinms'[i].psf = kinms[i].psf /\ kinms'[i].lsf = kinms[i].lsf
    /\ kinms'[i].seed = kinms[i].seed
    /\ kinms'[i].randompick_r = kinms[i].randompick_r
    /\ kinms'[i].randompick_phi = kinms[i].randompick_phi
    /\ kinms'[i].randompick_vdisp = kinms[i].randompick_vdisp

\* C18: the caches of the instance are read-only to model_cube.  After any
\* sequence of calls, failed ones included, psf, lsf, seed, randompick_r,
\* randompick_phi and randompick_vdisp are what they were when the
\* constructor returned.
C18_CachesReadOnly == [][CachesKept]_vars

\* A call with explicit clouds, fewer than the instance's streams are long,
\* whose velocities took a slice of the dispersion stream, after another call.
C18_Witness ==
  \E i \in DOMAIN kinms :
    /\ Done(i) /\ last[i].calls >= 2
    /\ kinms[i].inClouds_given /\ last[i].tr.projected
    /\ kinms[i].nSamps < Len(kinms[i].randompick_vdisp)
    /\ Len(kinms[i].randompick_vdisp) = Len(kinms[i].randompick_r)

\* ---- C19 ----
\* C19: the random streams are generated once.  No model_cube call creates
\* or seeds a random generator or draws random numbers: all four streams
\* (radius, azimuth, thickness, dispersion) come from the constructor.
C19_StreamsDrawnOnce ==
  \A i \in DOMAIN kinms : Called(i) => last[i].tr.drawn = 0

\* ---- C21 ----
\* C21: for every beam specification (a scalar, two values, or three values
\* with any position angle) the beam that makebeam builds the kernel from has
\* major >= minor and a position angle in [0, 180); a scalar b gives
\* (b, b, 0) and a two-value beam gets the position angle 0.
\* Violated: the position angle is lowered by 180 once, and only when it is
\* at least 180, so 360 stays at 180 and -90 stays at -90.
C21_BeamNormalised ==
  \A i \in DOMAIN kinms :
    ~kinms[i].cleanOut =>
      LET b  == kinms[i].beamSize
          bs == BeamNormalise(b)
      IN  /\ bs[1] >= bs[2]
          /\ bs[3] >= 0 /\ bs[3] < 180
          /\ {bs[1], bs[2]} = {b[1], b[IF Len(b) = 1 THEN 1 ELSE 2]}
          /\ (Len(b) = 1 => bs = <<b[1], b[1], 0>>)
          /\ (Len(b) = 2 => bs[3] = 0)

\* ---- C22 ----
\* The indices where makebeam's summed kernel (flat) is non-zero, and where
\* makelsf's kernel is.
FlatIdx(k) ==
  LET bs   == BeamNormalise(k.beamSize)
      cent == <<k.x_size \div 2, k.y_size \div 2>>
      a    == (Cos(bs[3]) * Cos(bs[3]) * GaussExp(bs[2], k.cellSize))
              + (Sin(bs[3]) * Sin(bs[3]) * GaussExp(bs[1], k.cellSize))
      c    == (Sin(bs[3]) * Sin(bs[3]) * GaussExp(bs[2], k.cellSize))
              + (Cos(bs[3]) * Cos(bs[3]) * GaussExp(bs[1], k.cellSize))
  IN  IF 45 < bs[3] /\ bs[3] < 135
      THEN {x \in 0..(k.x_size - 1) :
              \E y \in 0..(k.y_size - 1) : BeamExp(cent, a, c, x, y) < 17}
      ELSE {y \in 0..(k.y_size - 1) :
              \E x \in 0..(k.x_size - 1) : BeamExp(cent, a, c, x, y) < 17}

LsfIdx(k) ==
  {x \in 0..(k.v_size - 1) :
     GaussExp(k.lsf_fwhm, k.dv) * (x - (k.v_size \div 2)) * (x - (k.v_size \div 2)) < 17}

\* The number of indices from the first to the last of idx.
Extent(idx) == (SetMax(idx) - SetMin(idx)) + 1

\* size is odd, at least the extent unless it is the largest odd size the
\* limit allows, at most the limit, and size // 2 pixels fit on both sides of
\* the centre limit // 2 of every axis of length `axis` >= limit.
CropFits(size, idx, limit, axis) ==
  /\ size % 2 = 1
  /\ size <= limit
  /\ (size >= Extent(idx) \/ size = (IF limit % 2 = 0 THEN limit - 1 ELSE limit))
  /\ (axis \div 2) - (size \div 2) >= 0
  /\ (axis \div 2) + (size \div 2) <= axis - 1

LinearIndex(k, q) == q[3] + (k.v_size * q[2]) + ((k.v_size * k.y_size) * q[1])

\* C23: flattened-index binning equals 3-D counting.  On a call without flux
\* weights that kept some cloud, the grid has the shape (X, Y, V), each of its
\* voxels holds the number of surviving clouds of that index triple, the
\* linear index iv + V*iy + V*Y*ix maps the triples one to one onto
\* [0, X*Y*V), and the grid sums to the number of surviving clouds.
C23_FlattenedBinning ==
  \A i \in DOMAIN kinms :
    (Done(i) /\ ~last[i].cfg.flux_clouds.given /\ Survivors(i) # {}) =>
      LET k == kinms[i]
          G == last[i].tr.grid
      IN  /\ DOMAIN G = Voxels(k)
          /\ \A q \in Voxels(k) :
               G[q] = Cardinality({j \in Survivors(i) : CloudIndex(i, j) = q})
          /\ {LinearIndex(k, q) : q \in Voxels(k)} = 0..((k.x_size * k.y_size * k.v_size) - 1)
          /\ \A q1, q2 \in Voxels(k) : LinearIndex(k, q1) = LinearIndex(k, q2) => q1 = q2
          /\ VSum(k, G) = Cardinality(Survivors(i))

\* A call without weights on a grid of three different extents that put two
\* or more clouds on one voxel away from the first row.
C23_Witness ==
  \E i \in DOMAIN kinms :
    /\ Done(i) /\ ~last[i].cfg.flux_clouds.given
    /\ Cardinality({kinms[i].x_size, kinms[i].y_size, kinms[i].v_size}) = 3
    /\ \E q \in Voxels(kinms[i]) : q[1] > 0 /\ last[i].tr.grid[q] >= 2

\* ---- C24 ----
\* The face-on positions of the clouds of call i, and their los velocities
\* computed from those positions.
FaceOn(i) == set_cloud_positions(last[i].tr.inClouds)

LosFaceOn(i) ==
  kinms_create_velField_oneSided(
    kinms[i],
    [velRad |-> last[i].tr.velRad, velProf |-> last[i].tr.velProf,
     gasSigma |-> last[i].cfg.gasSigma, vPosAng |-> last[i].cfg.vPosAng,
     vPhaseCent |-> last[i].cfg.vPhaseCent,
     x_pos |-> FaceOn(i).x_pos, y_pos |-> FaceOn(i).y_pos, r_flat |-> FaceOn(i).r_flat],
    last[i].tr.posAng_rad, last[i].tr.inc_rad)

\* Cloud j inclined and then rotated, and rotated and then inclined.
InclinedRotated(i, j) ==
  LET p  == last[i].tr.inClouds[j]
      p2 == inclination_projection(last[i].tr.inc_rad[j], p[1], p[2], p[3])
  IN  position_angle_rotation(last[i].tr.posAng_rad[j], p2[1], p2[2], p2[3])

RotatedInclined(i, j) ==
  LET p  == last[i].tr.inClouds[j]
      p2 == position_angle_rotation(last[i].tr.posAng_rad[j], p[1], p[2], p[3])
  IN  inclination_projection(last[i].tr.inc_rad[j], p2[1], p2[2], p2[3])

\* C24: stage ordering.  In every model_cube call that returns a cube from a
\* rotation profile, the clouds are sampled first (when none are given), the
\* los velocities are computed from the face-on positions, the positions are
\* inclined and only then rotated by the position angle, the binning uses the
\* projected positions, the spatial convolution comes before the spectral
\* one, and normalise_cube is the last step that changes the cube.  With
\* explicit los velocities the positions are neither inclined nor rotated.
C24_StageOrder ==
  \A i \in DOMAIN kinms :
    Done(i) =>
      LET k == kinms[i]
          c == last[i].cfg
          t == last[i].tr
      IN  /\ Len(c.inClouds) = 0 => (t.sampled /\ t.n = k.nSamps /\ Len(t.inClouds) = t.n)
          /\ Len(c.vLOS_clouds) = 0 =>
               /\ t.projected
               /\ LosFaceOn(i).err = "none" /\ t.los_vel = LosFaceOn(i).val
               /\ \A j \in 1..t.n : t.x[j] = InclinedRotated(i, j)[1]
                                    /\ t.y[j] = InclinedRotated(i, j)[2]
          /\ Len(c.vLOS_clouds) # 0 =>
               /\ ~t.projected
               /\ t.los_vel = c.vLOS_clouds
               /\ \A j \in 1..t.n : t.x[j] = t.inClouds[j][1] /\ t.y[j] = t.inClouds[j][2]
          /\ \A j \in 1..t.n : t.subs[j] <=> InView(i, j)
          /\ \A q \in Voxels(k) :
               t.grid[q] = SeqSum([j \in 1..t.n |->
                                     IF InView(i, j) /\ CloudIndex(i, j) = q
                                     THEN CloudFlux(i, j) ELSE 0])
          /\ t.spatial = SpatialStage(k, [v |-> t.grid, den |-> 1])
          /\ t.prenorm = SpectralStage(k, t.spatial)
          /\ last[i].ret.cube = normalise_cube(k, c, t.prenorm).inplace

\* A sampled, tilted disc on which the order of the two projections shows, in
\* view, blurred by the beam, then by the line spread function, then scaled.
C24_Witness ==
  \E i \in DOMAIN kinms :
    /\ Done(i) /\ last[i].tr.sampled /\ Len(last[i].cfg.vLOS_clouds) = 0
    /\ ~kinms[i].cleanOut /\ kinms[i].lsf_fwhm # 0
    /\ \E j \in 1..last[i].tr.n :
         /\ InView(i, j)
         /\ <<InclinedRotated(i, j)[1], InclinedRotated(i, j)[2]>>
              # <<RotatedInclined(i, j)[1], RotatedInclined(i, j)[2]>>
         /\ <<last[i].tr.x[j], last[i].tr.y[j]>>
              # <<last[i].tr.inClouds[j][1], last[i].tr.inClouds[j][2]>>
    /\ last[i].tr.spatial # [v |-> last[i].tr.grid, den |-> 1]
    /\ last[i].tr.prenorm # last[i].tr.spatial
    /\ last[i].ret.cube # last[i].tr.prenorm
    /\ last[i].ret.cube.den # 0

\* ---- C25 ----
\* C25: convolution dispatch.  The spatial convolution is performed if and
\* only if cleanOut is not set (by convolve_fft when huge_beam is set, by
\* convolve otherwise; the two compute the same sums), and the spectral
\* convolution if and only if lsf_fwhm was given to the constructor, whatever
\* cleanOut is: the cube after the spatial loop is the grid itself when
\* cleanOut is set and the grid convolved with the beam when it is not, and
\* the cube handed to the normaliser is that cube itself without a line
\* spread function and that cube convolved with it otherwise.
\* Violated: a channel or spectrum that does not sum to more than zero is
\* left unconvolved whatever the flags are (see C20).
C25_ConvolutionDispatch ==
  \A i \in DOMAIN kinms :
    Done(i) =>
      LET k == kinms[i]
          G == [v |-> last[i].tr.grid, den |-> 1]
      IN  /\ k.cleanOut => last[i].tr.spatial = G
          /\ ~k.cleanOut => last[i].tr.spatial = SpatialAll(k, G)
          /\ k.lsf_fwhm = 0 => last[i].tr.prenorm = last[i].tr.spatial
          /\ k.lsf_fwhm # 0 => last[i].tr.prenorm = SpectralAll(k, last[i].tr.spatial)

\* ---- C26 ----
\* N times the mass enclosed at radius r on call i, N being the number of
\* clouds: the i-th smallest 3-D cloud radius encloses i/N of the mass, the
\* radius 0 none, and the radii between them are interpolated.
EnclosedMassN(i, r) ==
  LET t == last[i].tr
  IN  Interp(r,
             <<0>> \o Sorted([j \in 1..t.n |->
                                ISqrt((t.inClouds[j][1] * t.inClouds[j][1])
                                      + (t.inClouds[j][2] * t.inClouds[j][2])
                                      + (t.inClouds[j][3] * t.inClouds[j][3]))]),
             [m \in 1..(t.n + 1) |-> (m - 1) * last[i].cfg.massDist[1]])

\* G * M_enclosed(r) / (arcsec_to_pc * r * distance), 0 where it is not finite.
AddedSqr(i, r) ==
  IF r = 0 \/ last[i].cfg.massDist[2] = 0 THEN 0
  ELSE (grav_const * EnclosedMassN(i, r))
       \div (10000 * arcsec_to_pc * last[i].tr.n * r * last[i].cfg.massDist[2])

\* A call that got its clouds and was given a [mass, distance] pair and a
\* rotation curve, and no los velocities.
GravityCase(i) ==
  /\ Called(i) /\ last[i].tr.stage # "generate"
  /\ Len(last[i].cfg.massDist) = 2
  /\ Len(last[i].cfg.vLOS_clouds) = 0 /\ Len(last[i].cfg.velProf) # 0

\* C26: the self-gravity term.  With a two-element massDist the call raises
\* nothing, the rotation curve used is sqrt(velProf^2 + added) with added =
\* G * M_enclosed(r) / (arcsec_to_pc * r * distance) at each radius r of the
\* rotation curve and 0 where that is not finite (r = 0), the los velocities
\* are interpolated from that curve, and the velProf the caller passed is
\* left as it was.
C26_SelfGravity ==
  \A i \in DOMAIN kinms :
    GravityCase(i) =>
      LET c == last[i].cfg
          t == last[i].tr
      IN  /\ Done(i)
          /\ Len(t.velProf) = Len(t.velRad)
          /\ \A j \in 1..Len(t.velRad) :
               t.velProf[j] = ISqrt((c.velProf[j] * c.velProf[j]) + AddedSqr(i, t.velRad[j]))
          /\ t.los_vel = LosFaceOn(i).val
          /\ t.velProf_arg = c.velProf

\* A call whose rotation curve starts at the radius 0, where it is left as it
\* was, and is raised by the gas mass further out.
C26_Witness ==
  \E i \in DOMAIN kinms :
    /\ GravityCase(i) /\ Done(i)
    /\ last[i].tr.velRad[1] = 0
    /\ last[i].tr.velProf[1] = last[i].cfg.velProf[1]
    /\ last[i].tr.velProf[2] > last[i].cfg.velProf[2]

\* ---- C27 ----
\* C27: the normaliser never divides by a zero cube sum.  In every model_cube
\* call in which no cloud passes the bounds test the cube returned is the
\* all-zero grid, its values finite, with a target flux and with neither a
\* target flux nor flux weights.
\* Violated: normalise_cube divides by cube.sum() = 0 and every voxel of the
\* cube returned is NaN.
C27_NoZeroDivision ==
  \A i \in DOMAIN kinms :
    (/\ Done(i) /\ NoneKept(i)
     /\ (last[i].cfg.intFlux > 0 \/ ~last[i].cfg.flux_clouds.given)) =>
      /\ last[i].ret.kind = "cube"
      /\ last[i].ret.cube.den # 0
      /\ DOMAIN last[i].ret.cube.v = Voxels(kinms[i])
      /\ \A q \in Voxels(kinms[i]) : last[i].ret.cube.v[q] = 0

\* ---- C28 ----
\* A call with explicit clouds, a rotation curve on radii of its own and a
\* single velocity dispersion, and no los velocities.
ExplicitRotation(i) ==
  /\ Called(i)
  /\ Len(last[i].cfg.inClouds) >= 1 /\ Len(last[i].cfg.vLOS_clouds) = 0
  /\ Len(last[i].cfg.velRad) >= 1 /\ Len(last[i].cfg.velProf) = Len(last[i].cfg.velRad)
  /\ Len(last[i].cfg.massDist) = 0 /\ Len(last[i].cfg.gasSigma) = 1
  /\ Len(last[i].cfg.inc) = 1 /\ Len(last[i].cfg.posAng) = 1
  /\ Len(last[i].cfg.vPosAng) = 0 /\ last[i].cfg.vPhaseCent = <<0, 0>>
  /\ ~last[i].cfg.flux_clouds.given

\* The rotation term of the los velocity of cloud j.
RotationTerm(i, j) ==
  LET c == last[i].cfg
      p == c.inClouds[j]
  IN  RotCosTheta(Interp(ISqrt((p[1] * p[1]) + (p[2] * p[2])), c.velRad, c.velProf),
                  p[1], p[2], 0)
      * Sin(c.inc[1])

\* C28: explicit clouds of any count are handled consistently with the
\* pre-drawn dispersion stream.  With M explicit clouds and a rotation curve
\* (no los velocities) the call succeeds with M los velocities, and the
\* dispersion sample of cloud j is entry j of the stream drawn at
\* construction scaled by the dispersion, for every M >= 1, M larger than
\* the nSamps of the constructor included.
\* Violated: the stream holds nSamps entries; with more clouds than that the
\* slice of it is too short, the sum with the M rotation terms raises
\* ValueError, or, when nSamps is 1, every cloud gets the one entry.
C28_ExplicitDispersion ==
  \A i \in DOMAIN kinms :
    ExplicitRotation(i) =>
      LET M == Len(last[i].cfg.inClouds)
          t == last[i].tr
      IN  /\ Done(i) /\ last[i].ret.kind = "cube"
          /\ Len(t.los_vel) = M
          /\ Len(kinms[i].randompick_vdisp) >= M
          /\ \A j \in 1..M :
               t.los_vel[j] = (kinms[i].randompick_vdisp[j] * last[i].cfg.gasSigma[1])
                              - RotationTerm(i, j)

=============================================================================
